---- MODULE Spec2Model ----
(***************************************************************************)
(* Model of the Cloudflare DynDNS worker: configuration loading            *)
(* (src/src/config/index.ts), the provider client                          *)
(* (src/src/services/cloudflare.ts), the reconciler                        *)
(* (src/src/services/dnsUpdater.ts) and the worker loop (src/src/worker.ts)*)
(*                                                                         *)
(* Strings the code inspects character by character (addresses) are        *)
(* sequences of one-character strings.  Optional values (statusCode?,      *)
(* proxied?, id?) are sets with at most one element.  Error messages are   *)
(* sequences of tokens, so that "message includes X" is token membership.  *)
(***************************************************************************)
EXTENDS Integers, Sequences, FiniteSets, TLC

VARIABLES
    descriptors,   \* the parsed CLOUDFLARE_RECORDS array (SimpleRecordConfig[])
    reconciler,    \* "shipped": fn is checkAndUpdateDNS; "stub": fn is an arbitrary async function
    zones,         \* config.cloudflare.zones (ZoneConfig[]) once loadArrayConfig returned
    pc,            \* where the single thread of control is suspended
    state,         \* WorkerState of startWorker
    exitCode,      \* {} while the process lives, {code} after process.exit(code)
    exitInfo,      \* shutdown reason, the suspension point the process was at when it exited,
                   \* and the error main() caught ({} or {error})
    timers,        \* number of pending timers armed by scheduleNextCheck
    attempt,       \* retryWithBackoff: loop variable
    lastError,     \* retryWithBackoff: lastError ({} or {error})
    delays,        \* delays (ms) retryWithBackoff has slept in this pass, in order
    passResult,    \* outcome of the try block of performDNSCheck: "none", "ok", "failed"
    passError,     \* the error performDNSCheck caught ({} or {error})
    summary,       \* UpdateSummary of the running checkAndUpdateDNS call
    zi, ri,        \* processZone: index of the zone and of the record being processed
    currentIP,     \* updateRecord: currentIP
    existing,      \* updateRecord: existingRecord ({} or {record})
    calls,         \* provider-client calls issued in this attempt, in order
    trace,         \* per-record log of this attempt: what was discovered, fetched and returned
    staleWarning,  \* whether checkSyncHealth warned at the last tick
    discovery,     \* the IP detection service on its own: the answers the echo services
                   \* give, the position of tryProviders, the results of the calls made
    client,        \* the provider client on its own: the credentials, whether it was
                   \* constructed, the request in flight and how the last call ended
    validation     \* the address validators on their own: the input and the verdicts

workerVars == <<descriptors, reconciler, zones, pc, state, exitCode, exitInfo, timers, attempt,
                lastError, delays, passResult, passError, summary, zi, ri, currentIP,
                existing, calls, trace, staleWarning>>

\* the state of the services when they are observed on their own
serviceVars == <<discovery, client, validation>>

vars == <<descriptors, reconciler, zones, pc, state, exitCode, exitInfo, timers, attempt,
          lastError, delays, passResult, passError, summary, zi, ri, currentIP,
          existing, calls, trace, staleWarning, discovery, client, validation>>

-----------------------------------------------------------------------------
(* Bounds of the model *)

\* passes a run performs when the reconciler is the shipped one
MaxChecks == 2
\* passes a run performs when the reconciler is a stub that may throw
MaxStubChecks == 12
\* calls of getPublicIPv4 / getPublicIPv6 made against the same echo services
MaxDiscoveries == 2

\* requests one provider client sends while it is observed on its own
MaxRequests == 2

\* the most dot-separated / colon-separated groups of a string handed to a validator
MaxV4Groups == 5
MaxV6Groups == 9

-----------------------------------------------------------------------------
(* Strings *)

\* String.prototype.toLowerCase on one character (the hexadecimal letters)
LowerChar(c) ==
    CASE c = "A" -> "a" [] c = "B" -> "b" [] c = "C" -> "c"
      [] c = "D" -> "d" [] c = "E" -> "e" [] c = "F" -> "f"
      [] OTHER -> c

ToLowerCase(s) == [i \in 1..Len(s) |-> LowerChar(s[i])]

RECURSIVE TrimStart(_)
TrimStart(s) ==
    IF Len(s) > 0 /\ s[1] = " " THEN TrimStart(Tail(s)) ELSE s

RECURSIVE TrimEnd(_)
TrimEnd(s) ==
    IF Len(s) > 0 /\ s[Len(s)] = " " THEN TrimEnd(SubSeq(s, 1, Len(s) - 1)) ELSE s

\* String.prototype.trim
Trim(s) == TrimEnd(TrimStart(s))

\* dnsUpdater.ts: x.trim().toLowerCase()
Normalize(s) == ToLowerCase(Trim(s))

\* address literals
IP_10_0_0_1 == <<"1", "0", ".", "0", ".", "0", ".", "1">>
IP_10_0_0_2 == <<"1", "0", ".", "0", ".", "0", ".", "2">>
IP_10_0_0_1_padded == <<"1", "0", ".", "0", ".", "0", ".", "1", " ">>
IP6_a == <<":", ":", "a">>
IP6_A == <<":", ":", "A">>
IP6_B == <<":", ":", "B">>

-----------------------------------------------------------------------------
(* Errors *)

\* an Error object: its class, its optional statusCode, its message
MkError(class, statusCode, message) ==
    [class |-> class, statusCode |-> statusCode, message |-> message, errors |-> <<>>]

\* new CloudflareAPIError(message, statusCode?)
CloudflareAPIError(message, statusCode) ==
    MkError("CloudflareAPIError", statusCode, message)

\* new CloudflareAPIError(message, statusCode, errors)
CloudflareAPIErrorWithList(message, statusCode, errors) ==
    [CloudflareAPIError(message, statusCode) EXCEPT !.errors = errors]

\* new IPDetectionError(message)
IPDetectionError(message) == MkError("IPDetectionError", {}, message)

\* new ConfigError(message)
ConfigError(message) == MkError("ConfigError", {}, message)

\* new Error(message)
PlainError(message) == MkError("Error", {}, message)

\* the result of an awaited call: a value or a thrown error
Returned(v) == [ok |-> TRUE, value |-> {v}, error |-> {}]
Thrown(e) == [ok |-> FALSE, value |-> {}, error |-> {e}]
ValueOf(r) == CHOOSE v \in r.value : TRUE
ErrorOf(r) == CHOOSE e \in r.error : TRUE

-----------------------------------------------------------------------------
(* Provider client: src/src/services/cloudflare.ts *)

\* what fetch() and response.json() can produce for one request:
\*   kind "abort":    the 10 s timer aborted the request (AbortError)
\*   kind "reject":   fetch() rejected with an Error whose message is `text`
\*   kind "response": a response with `status`; `parse` tells whether the body
\*                    is JSON; then success/errors/result are the envelope
RawAbort ==
    [kind |-> "abort", status |-> 0, parse |-> FALSE, success |-> FALSE,
     errors |-> <<>>, result |-> {}, text |-> <<>>]

RawReject(text) ==
    [kind |-> "reject", status |-> 0, parse |-> FALSE, success |-> FALSE,
     errors |-> <<>>, result |-> {}, text |-> text]

RawUnparsable(status) ==
    [kind |-> "response", status |-> status, parse |-> FALSE, success |-> FALSE,
     errors |-> <<>>, result |-> {}, text |-> <<>>]

RawEnvelope(status, success, errors, result) ==
    [kind |-> "response", status |-> status, parse |-> TRUE, success |-> success,
     errors |-> errors, result |-> result, text |-> <<>>]

\* response.ok
ResponseOk(status) == status >= 200 /\ status <= 299

\* a request that returns whatever result a parsed envelope holds, without the
\* checks of success and of the HTTP status
RequestWithoutChecks(method, raw) ==
    IF raw.kind = "abort" THEN
        Thrown(CloudflareAPIError(<<"Request timeout (10s) for", method>>, {}))
    ELSE IF raw.kind = "reject" THEN
        Thrown(CloudflareAPIError(<<"Failed to", method>> \o raw.text, {}))
    ELSE IF ~raw.parse THEN
        Thrown(CloudflareAPIError(<<"Failed to", method, "Unexpected token">>, {}))
    ELSE IF raw.result = {} THEN
        Thrown(CloudflareAPIError(<<"API returned success but no result data">>, {}))
    ELSE Returned(CHOOSE v \in raw.result : TRUE)

\* CloudflareClient.request, given what the network produced
Request(method, raw) ==
    IF raw.kind = "abort" THEN
        Thrown(CloudflareAPIError(<<"Request timeout (10s) for", method>>, {}))
    ELSE IF raw.kind = "reject" THEN
        Thrown(CloudflareAPIError(<<"Failed to", method>> \o raw.text, {}))
    ELSE IF ~raw.parse THEN
        \* response.json() throws a SyntaxError, wrapped by the generic catch
        Thrown(CloudflareAPIError(<<"Failed to", method, "Unexpected token">>, {}))
    ELSE IF ~raw.success THEN
        Thrown(CloudflareAPIErrorWithList(<<"Cloudflare API error:">> \o raw.errors,
                                          {raw.status}, raw.errors))
    ELSE IF ~ResponseOk(raw.status) THEN
        Thrown(CloudflareAPIError(<<"HTTP", ToString(raw.status)>>, {raw.status}))
    ELSE IF raw.result = {} THEN
        Thrown(CloudflareAPIError(<<"API returned success but no result data">>, {}))
    ELSE Returned(CHOOSE v \in raw.result : TRUE)

\* the failures the network and the provider produce in the model
FailureStatuses == {401, 403, 429, 500, 503}

RawFailures ==
    {RawAbort, RawReject(<<"connect", "ECONNREFUSED">>), RawUnparsable(502),
     RawEnvelope(200, TRUE, <<>>, {})}
    \cup {RawEnvelope(s, FALSE, <<"provider error">>, {}) : s \in FailureStatuses}

\* JavaScript truthiness of an optional string, number, boolean: undefined,
\* "", 0 and false are falsy
Truthy(v) == v # {} /\ v # {""}
TruthyNumber(v) == v # {} /\ v # {0}
TruthyBoolean(v) == v # {} /\ v # {FALSE}

\* `v !== undefined`
Defined(v) == v # {}

\* a body that takes a field only when its value is truthy
UpdatePayloadOfTruthyFields(data) ==
    [type |-> data.type, content |-> data.content,
     name |-> IF Truthy(data.name) THEN data.name ELSE {},
     ttl |-> IF TruthyNumber(data.ttl) THEN data.ttl ELSE {},
     proxied |-> IF TruthyBoolean(data.proxied) THEN data.proxied ELSE {}]

\* the request body updateDNSRecord builds from `data` (optional fields are
\* sets; a key the body does not have is the empty set)
UpdatePayload(data) ==
    [type |-> data.type, content |-> data.content,
     name |-> IF Defined(data.name) THEN data.name ELSE {},
     ttl |-> IF Defined(data.ttl) THEN data.ttl ELSE {},
     proxied |-> IF Defined(data.proxied) THEN data.proxied ELSE {}]

\* the credentials of a CloudflareConfig: each of apiToken, email, apiKey is
\* absent or a string, possibly the empty one
Config(apiToken, email, apiKey) == [apiToken |-> apiToken, email |-> email, apiKey |-> apiKey]

\* a constructor that accepts a bearer token only
ConstructorTokenOnly(config) ==
    IF ~Truthy(config.apiToken) THEN
        Thrown(CloudflareAPIError(<<"Either apiToken or (email + apiKey) must be provided">>, {}))
    ELSE Returned([Authorization |-> config.apiToken, XAuthEmail |-> {}, XAuthKey |-> {}])

\* new CloudflareClient(config): the headers of the client, or the error thrown
Constructor(config) ==
    IF ~Truthy(config.apiToken) /\ ~(Truthy(config.email) /\ Truthy(config.apiKey)) THEN
        Thrown(CloudflareAPIError(<<"Either apiToken or (email + apiKey) must be provided">>, {}))
    ELSE IF Truthy(config.apiToken) THEN
        Returned([Authorization |-> config.apiToken, XAuthEmail |-> {}, XAuthKey |-> {}])
    ELSE
        Returned([Authorization |-> {}, XAuthEmail |-> config.email, XAuthKey |-> config.apiKey])

-----------------------------------------------------------------------------
(* Configuration: src/src/config/index.ts *)

\* parseBoolean(value, defaultValue).  The "proxy" field of a descriptor is
\* "undefined" (absent), a JSON boolean ("bool:true", "bool:false") or a JSON
\* string ("str:true", "str:1", "str:yes", ...)
ParseBoolean(value, defaultValue) ==
    IF value = "undefined" THEN defaultValue
    ELSE IF value = "bool:true" THEN TRUE
    ELSE IF value = "bool:false" THEN FALSE
    ELSE value = "str:true" \/ value = "str:1"

\* a SimpleRecordConfig; subdomain "" and type "" stand for an absent field
Descriptor(zone, subdomain, type, proxy) ==
    [zone |-> zone, subdomain |-> subdomain, type |-> type, proxy |-> proxy]

\* loadArrayConfig, lines 123-126 and 137: the RecordConfig of one descriptor
RecordOf(record) ==
    [name |-> IF record.subdomain # "" THEN <<record.subdomain, record.zone>>
              ELSE <<record.zone>>,
     type |-> IF record.type # "" THEN record.type ELSE "A",
     proxied |-> {ParseBoolean(record.proxy, FALSE)},
     id |-> {}]

\* a lookup that falls back to the first zone of the account
FindZoneOrFirst(allZones, zoneName) ==
    IF \E i \in 1..Len(allZones) : allZones[i].name = zoneName
    THEN {allZones[CHOOSE i \in 1..Len(allZones) :
                     /\ allZones[i].name = zoneName
                     /\ \A j \in 1..(i - 1) : allZones[j].name # zoneName]}
    ELSE IF Len(allZones) > 0 THEN {allZones[1]} ELSE {}

\* allZones.find((z) => z.name === zoneName)
FindZone(allZones, zoneName) ==
    IF \E i \in 1..Len(allZones) : allZones[i].name = zoneName
    THEN {allZones[CHOOSE i \in 1..Len(allZones) :
                     /\ allZones[i].name = zoneName
                     /\ \A j \in 1..(i - 1) : allZones[j].name # zoneName]}
    ELSE {}

\* zoneMap.get(zoneName).records.push(...), creating the entry when absent
\* (a Map iterates in insertion order)
ZoneMapPush(zoneMap, zone, rc) ==
    IF \E i \in 1..Len(zoneMap) : zoneMap[i].domain = zone.name
    THEN [i \in 1..Len(zoneMap) |->
            IF zoneMap[i].domain = zone.name
            THEN [zoneMap[i] EXCEPT !.records = Append(@, rc)]
            ELSE zoneMap[i]]
    ELSE Append(zoneMap, [zoneId |-> zone.id, domain |-> zone.name, records |-> <<rc>>])

\* loadArrayConfig, lines 122-154: the loop over the descriptors
RECURSIVE GroupRecords(_, _, _)
GroupRecords(records, allZones, zoneMap) ==
    IF records = <<>> THEN Returned(zoneMap)
    ELSE LET record == Head(records)
             zone == FindZone(allZones, record.zone)
         IN IF zone = {}
            THEN Thrown(ConfigError(<<"Zone", record.zone, "not found in your Cloudflare account">>))
            ELSE GroupRecords(Tail(records), allZones,
                              ZoneMapPush(zoneMap, CHOOSE z \in zone : TRUE, RecordOf(record)))

\* loadArrayConfig from line 116 on, given what listZones produced
LoadArrayConfigResult(records, raw) ==
    LET listed == Request("GET /zones", raw)
    IN IF ~listed.ok THEN listed
       ELSE GroupRecords(records, ValueOf(listed), <<>>)

\* the zones of the account
AccountZones ==
    <<[id |-> "zid-com", name |-> "example.com", status |-> "active"],
      [id |-> "zid-org", name |-> "example.org", status |-> "active"]>>

\* the CLOUDFLARE_RECORDS arrays of the model
D_www == Descriptor("example.com", "www", "", "undefined")
D_root == Descriptor("example.com", "", "A", "bool:true")
D_v6 == Descriptor("example.org", "ipv6", "AAAA", "bool:false")
D_api == Descriptor("example.com", "api", "AAAA", "str:true")
D_yes == Descriptor("example.org", "", "", "str:yes")
D_lost == Descriptor("nonexistent.com", "www", "A", "bool:false")

Configurations ==
    {<<D_www>>, <<D_root>>, <<D_v6>>, <<D_api>>, <<D_yes>>, <<D_lost>>,
     <<D_www, D_v6>>, <<D_www, D_lost>>}

\* the records a configuration declares, in declaration order
NumRecords(zs) ==
    LET RECURSIVE Sum(_)
        Sum(i) == IF i > Len(zs) THEN 0 ELSE Len(zs[i].records) + Sum(i + 1)
    IN Sum(1)

-----------------------------------------------------------------------------
(* Address discovery: the IP detection service, src/src/index.ts, 79-294 *)

Digits == {"0", "1", "2", "3", "4", "5", "6", "7", "8", "9"}

HexDigits == Digits \cup {"a", "b", "c", "d", "e", "f", "A", "B", "C", "D", "E", "F"}

\* the pieces of s between the occurrences of the character sep
RECURSIVE Split(_, _)
Split(s, sep) ==
    IF \A i \in 1..Len(s) : s[i] # sep THEN <<s>>
    ELSE LET k == CHOOSE i \in 1..Len(s) : s[i] = sep /\ \A j \in 1..(i - 1) : s[j] # sep
         IN <<SubSeq(s, 1, k - 1)>> \o Split(SubSeq(s, k + 1, Len(s)), sep)

DigitValue(c) ==
    CASE c = "0" -> 0 [] c = "1" -> 1 [] c = "2" -> 2 [] c = "3" -> 3 [] c = "4" -> 4
      [] c = "5" -> 5 [] c = "6" -> 6 [] c = "7" -> 7 [] c = "8" -> 8 [] c = "9" -> 9

\* parseInt(octet, 10) on a string of decimal digits
RECURSIVE ParseInt(_)
ParseInt(octet) ==
    IF octet = <<>> THEN 0
    ELSE 10 * ParseInt(SubSeq(octet, 1, Len(octet) - 1)) + DigitValue(octet[Len(octet)])

\* a validator that tests the shape of the string only
IsValidIPv4ShapeOnly(ip) ==
    LET octets == Split(ip, ".")
    IN /\ Len(octets) = 4
       /\ \A i \in 1..4 :
             /\ Len(octets[i]) \in 1..3
             /\ \A j \in 1..Len(octets[i]) : octets[i][j] \in Digits

\* isValidIPv4: /^(\d{1,3})\.(\d{1,3})\.(\d{1,3})\.(\d{1,3})$/ and every octet in 0..255
IsValidIPv4(ip) ==
    LET octets == Split(ip, ".")
    IN /\ Len(octets) = 4
       /\ \A i \in 1..4 :
             /\ Len(octets[i]) \in 1..3
             /\ \A j \in 1..Len(octets[i]) : octets[i][j] \in Digits
             /\ ParseInt(octets[i]) >= 0
             /\ ParseInt(octets[i]) <= 255

\* a validator whose pattern asks for 1 to 7 colons
IsValidIPv6FromOneColon(ip) ==
    LET groups == Split(ip, ":")
    IN /\ Len(groups) - 1 >= 1
       /\ Len(groups) - 1 <= 7
       /\ \A i \in 1..Len(groups) :
             /\ Len(groups[i]) <= 4
             /\ \A j \in 1..Len(groups[i]) : groups[i][j] \in HexDigits

\* isValidIPv6: /^([0-9a-fA-F]{0,4}:){2,7}[0-9a-fA-F]{0,4}$/ (2 to 7 colons,
\* groups of at most 4 hexadecimal digits, empty groups allowed)
IsValidIPv6(ip) ==
    LET groups == Split(ip, ":")
    IN /\ Len(groups) - 1 >= 2
       /\ Len(groups) - 1 <= 7
       /\ \A i \in 1..Len(groups) :
             /\ Len(groups[i]) <= 4
             /\ \A j \in 1..Len(groups[i]) : groups[i][j] \in HexDigits

\* isValidIP
IsValidIP(ip) == IsValidIPv4(ip) \/ IsValidIPv6(ip)

\* what one request to an IP-echo service can produce:
\*   kind "abort":    the 5 s timer aborted the request
\*   kind "reject":   fetch() rejected
\*   kind "response": a response with `status`; for a JSON provider `json` tells
\*                    whether the body parses and `ip` is data.ip when it is a
\*                    string ({} otherwise); for a plain provider `text` is the body
EchoAbort == [kind |-> "abort", status |-> 0, json |-> FALSE, ip |-> {}, text |-> <<>>]
EchoReject == [kind |-> "reject", status |-> 0, json |-> FALSE, ip |-> {}, text |-> <<>>]
EchoStatus(status) == [kind |-> "response", status |-> status, json |-> FALSE, ip |-> {}, text |-> <<>>]
EchoNotJson == [kind |-> "response", status |-> 200, json |-> FALSE, ip |-> {}, text |-> <<"<">>]
EchoJsonWithoutIp == [kind |-> "response", status |-> 200, json |-> TRUE, ip |-> {}, text |-> <<"{", "}">>]
EchoJson(ip) == [kind |-> "response", status |-> 200, json |-> TRUE, ip |-> {ip}, text |-> <<"{">> \o ip \o <<"}">>]
EchoText(text) == [kind |-> "response", status |-> 200, json |-> FALSE, ip |-> {}, text |-> text]

\* the catch block shared by fetchJSONProvider and fetchPlainProvider, and the
\* response.ok test before it
EchoFailure(url, raw) ==
    IF raw.kind = "abort" THEN {IPDetectionError(<<"Request timeout (5s) for", url>>)}
    ELSE IF raw.kind = "reject" THEN {IPDetectionError(<<"Failed to fetch from", url>>)}
    ELSE IF ~ResponseOk(raw.status) THEN {IPDetectionError(<<"HTTP", ToString(raw.status)>>)}
    ELSE {}

\* the validation both fetch functions end with
ValidatedIP(ip) ==
    IF ~IsValidIP(ip) THEN Thrown(IPDetectionError(<<"Invalid IP format:">> \o ip))
    ELSE Returned(ip)

\* fetchJSONProvider(url), given what the network produced
FetchJSONProvider(url, raw) ==
    IF EchoFailure(url, raw) # {} THEN Thrown(CHOOSE e \in EchoFailure(url, raw) : TRUE)
    ELSE IF ~raw.json THEN Thrown(IPDetectionError(<<"Failed to fetch from", url>>))
    ELSE IF raw.ip = {}
    THEN Thrown(IPDetectionError(<<"Invalid response format: missing or invalid ip field">>))
    ELSE ValidatedIP(Trim(CHOOSE ip \in raw.ip : TRUE))

\* fetchPlainProvider(url), given what the network produced
FetchPlainProvider(url, raw) ==
    IF EchoFailure(url, raw) # {} THEN Thrown(CHOOSE e \in EchoFailure(url, raw) : TRUE)
    ELSE ValidatedIP(Trim(raw.text))

\* the provider lists of getPublicIPv4 and getPublicIPv6
Provider(format, url) == [format |-> format, url |-> url]

ProvidersIPv4 ==
    <<Provider("json", "https://api.ipify.org?format=json"),
      Provider("plain", "https://ipv4.icanhazip.com"),
      Provider("plain", "https://checkip.amazonaws.com")>>

ProvidersIPv6 == <<Provider("json", "https://api64.ipify.org?format=json")>>

ProvidersOf(family) == IF family = "IPv6" THEN ProvidersIPv6 ELSE ProvidersIPv4

\* provider() as tryProviders calls it
CallProvider(provider, raw) ==
    IF provider.format = "json" THEN FetchJSONProvider(provider.url, raw)
    ELSE FetchPlainProvider(provider.url, raw)

\* errors.join('; ') on an array of messages
RECURSIVE JoinErrors(_)
JoinErrors(errors) ==
    IF errors = <<>> THEN <<>>
    ELSE IF Len(errors) = 1 THEN errors[1]
    ELSE errors[1] \o <<";">> \o JoinErrors(Tail(errors))

\* tryProviders, lines 236-238: the error thrown when every provider failed
AllProvidersFailed(family, errors) ==
    IPDetectionError(<<"Failed to detect", IF family = "IPv6" THEN "public IPv6" ELSE "public IPv4",
                       "Tried", ToString(Len(ProvidersOf(family))), "provider(s):">>
                     \o JoinErrors(errors))

\* a family check that is satisfied with any address the provider loop returned
FamilyCheckedAnyFamily(family, ip) == Returned(ip)

\* getPublicIPv4, lines 270-274, and getPublicIPv6, lines 289-293
FamilyChecked(family, ip) ==
    IF family = "IPv6"
    THEN IF ~IsValidIPv6(ip)
         THEN Thrown(IPDetectionError(<<"Received non-IPv6 address when expecting IPv6:">> \o ip))
         ELSE Returned(ip)
    ELSE IF ~IsValidIPv4(ip)
         THEN Thrown(IPDetectionError(<<"Received non-IPv4 address when expecting IPv4:">> \o ip))
         ELSE Returned(ip)

-----------------------------------------------------------------------------
(* Address discovery as the reconciler sees it: src/src/index.ts, 260-294 *)

\* getPublicIPv6() for type AAAA, getPublicIPv4() otherwise: an address of the
\* family that passed the validator, or an IPDetectionError
DiscoveryResults(type) ==
    IF type = "AAAA"
    THEN {Returned(IP6_a), Returned(IP6_B),
          Thrown(IPDetectionError(<<"Failed to detect", "public IPv6">>))}
    ELSE {Returned(IP_10_0_0_1), Returned(IP_10_0_0_2),
          Thrown(IPDetectionError(<<"Failed to detect", "public IPv4">>))}

-----------------------------------------------------------------------------
(* Provider state as one request sees it *)

\* a DNSRecord (created_on and modified_on are never read and left out)
DNSRecord(id, type, name, content, proxied, ttl) ==
    [id |-> id, type |-> type, name |-> name, content |-> content,
     proxied |-> proxied, ttl |-> ttl]

RecordContents == {IP_10_0_0_1, IP_10_0_0_1_padded, IP6_A}

\* the records the provider may hold under the name and type of one target
ProviderRecords(rc) ==
    {DNSRecord(it[1], rc.type, rc.name, c, p, it[2]) :
        it \in {<<"rec-1", 1>>, <<"rec-2", 300>>}, c \in RecordContents, p \in BOOLEAN}

\* the other of the two record types
OtherType(type) == IF type = "AAAA" THEN "A" ELSE "AAAA"

\* the lists a getDNSRecords call may return for one target; the last one is
\* the answer of a provider that disregards the type filter
RecordLists(rc) ==
    {<<>>} \cup {<<r>> : r \in ProviderRecords(rc)}
    \cup {<<DNSRecord("rec-2", rc.type, rc.name, IP6_A, TRUE, 300),
            DNSRecord("rec-1", rc.type, rc.name, IP_10_0_0_1, FALSE, 1)>>}
    \cup {<<DNSRecord("rec-3", OtherType(rc.type), rc.name, IP6_A, FALSE, 300)>>}

\* the lists a getDNSRecords call without filters may return for a target that
\* carries a record identifier: the records of the zone, of any name and type
ZoneRecordLists(rc) ==
    LET id == CHOOSE x \in rc.id : TRUE
        api == <<"api", "example.com">>
    IN {<<>>,
        <<DNSRecord(id, rc.type, rc.name, IP_10_0_0_1, TRUE, 300)>>,
        <<DNSRecord("rec-9", rc.type, rc.name, IP_10_0_0_1, FALSE, 1),
          DNSRecord(id, rc.type, rc.name, IP_10_0_0_2, TRUE, 300)>>,
        <<DNSRecord("rec-9", rc.type, rc.name, IP_10_0_0_2, FALSE, 1),
          DNSRecord(id, OtherType(rc.type), api, IP6_A, FALSE, 300),
          DNSRecord(id, rc.type, rc.name, IP_10_0_0_1, TRUE, 1)>>,
        <<DNSRecord("rec-9", rc.type, rc.name, IP_10_0_0_1, FALSE, 1),
          DNSRecord("rec-8", OtherType(rc.type), api, IP6_A, FALSE, 300)>>}

RawGetResponses(rc) ==
    RawFailures \cup {RawEnvelope(200, TRUE, <<>>, {l}) :
                         l \in IF Truthy(rc.id) THEN ZoneRecordLists(rc) ELSE RecordLists(rc)}

\* the answers to a PUT: a failure, or the record as the provider stored it
RawPutResponses(rec, data) ==
    RawFailures \cup
    {RawEnvelope(200, TRUE, <<>>,
        {DNSRecord(rec.id, data.type, rec.name, data.content, rec.proxied, rec.ttl)})}

RawZoneResponses ==
    RawFailures \cup {RawEnvelope(200, TRUE, <<>>, {AccountZones})}

-----------------------------------------------------------------------------
(* Reconciler: src/src/services/dnsUpdater.ts *)

EmptySummary == [updates |-> <<>>, errors |-> <<>>, skipped |-> 0, total |-> 0]

\* a lookup that takes the first record returned, identifier or not
FindDNSRecordFirstOnly(records, rc) ==
    IF Len(records) > 0 THEN {records[1]} ELSE {}

\* findDNSRecord: the selection made in the list getDNSRecords returned
FindDNSRecord(records, rc) ==
    IF Truthy(rc.id)
    THEN IF \E i \in 1..Len(records) : {records[i].id} = rc.id
         THEN {records[CHOOSE i \in 1..Len(records) :
                         /\ {records[i].id} = rc.id
                         /\ \A j \in 1..(i - 1) : {records[j].id} # rc.id]}
         ELSE {}
    ELSE IF Len(records) > 0 THEN {records[1]} ELSE {}

\* findDNSRecord: the filters of the getDNSRecords call
GetFilters(rc) ==
    IF Truthy(rc.id) THEN {} ELSE {[name |-> rc.name, type |-> rc.type]}

\* the not-found error without the zone in its message
NotFoundErrorNoZone(zone, rc) ==
    PlainError(<<"DNS record", rc.name, rc.type, "not found">>)

\* the error updateRecord throws when no record was found
NotFoundError(zone, rc) ==
    PlainError(<<"DNS record", rc.name, rc.type, "not found in zone", zone.domain>>)

\* the comparison without the case folding
SameAddressCaseSensitive(existingContent, discovered) ==
    Trim(existingContent) = Trim(discovered)

\* updateRecord, line 109
SameAddress(existingContent, discovered) ==
    Normalize(existingContent) = Normalize(discovered)

\* updateRecord, line 119
ProxiedToSend(rc, existingRecord) ==
    IF rc.proxied # {} THEN rc.proxied ELSE {existingRecord.proxied}

\* the update that lets the provider reset the TTL to automatic (1)
UpdateDataAutoTtl(rc, existingRecord, discovered) ==
    [content |-> Normalize(discovered),
     type |-> rc.type,
     name |-> {existingRecord.name},
     ttl |-> {1},
     proxied |-> ProxiedToSend(rc, existingRecord)]

\* an update that sends the type of the record that was fetched
UpdateDataTypeOfFetched(rc, existingRecord, discovered) ==
    [content |-> Normalize(discovered),
     type |-> existingRecord.type,
     name |-> {existingRecord.name},
     ttl |-> {existingRecord.ttl},
     proxied |-> ProxiedToSend(rc, existingRecord)]

\* updateRecord, lines 114-120: the data handed to updateDNSRecord
UpdateData(rc, existingRecord, discovered) ==
    [content |-> Normalize(discovered),
     type |-> rc.type,
     name |-> {existingRecord.name},
     ttl |-> {existingRecord.ttl},
     proxied |-> ProxiedToSend(rc, existingRecord)]

\* a provider-client call as issued; z, r tell for which target
Call(op, z, r, zoneId, recordId, filters, data) ==
    [op |-> op, z |-> z, r |-> r, zoneId |-> zoneId, recordId |-> recordId,
     filters |-> filters, data |-> data]

\* no catch clause: every error of updateRecord leaves checkAndUpdateDNS
CatchesNothing(error) == FALSE

\* a catch clause that handles discovery errors only and rethrows the rest
CatchesDiscoveryErrorsOnly(error) == error.class = "IPDetectionError"

\* a catch clause that handles provider errors only and rethrows the rest
CatchesProviderErrorsOnly(error) == error.class = "CloudflareAPIError"

\* processZone, line 75: the catch clause catches whatever updateRecord throws
ProcessZoneCatches(error) == TRUE

\* processZone, line 76
ErrorMessage(error) ==
    IF error.class = "NotAnError" THEN <<"String(error)">> ELSE error.message

\* processZone, lines 77-81
PushError(sum, zone, rc, error) ==
    [sum EXCEPT !.errors = Append(@, [zone |-> zone.domain, record |-> rc.name,
                                      error |-> ErrorMessage(error)])]

\* processZone, lines 69-74: what a returned result does to the summary
CountResult(sum, result) ==
    IF result = "skipped" THEN [sum EXCEPT !.skipped = @ + 1] ELSE sum

-----------------------------------------------------------------------------
(* Worker: src/src/worker.ts *)

MAX_CONSECUTIVE_ERRORS == 10

\* retryWithBackoff is called with maxRetries = 3
MaxRetries == 3

NetworkErrors == {"ECONNREFUSED", "ENOTFOUND", "ETIMEDOUT", "ECONNRESET"}

\* error instanceof Error
IsErrorInstance(error) == error.class # "NotAnError"

\* a classification that also retries every HTTP error status
IsTransientErrorAnyHttpError(error) ==
    IF error.class = "CloudflareAPIError"
    THEN \E s \in error.statusCode : s >= 400
    ELSE IF IsErrorInstance(error)
    THEN \E i \in 1..Len(error.message) : error.message[i] \in NetworkErrors
    ELSE FALSE

\* isTransientError
IsTransientError(error) ==
    IF error.class = "CloudflareAPIError"
    THEN \/ \E s \in error.statusCode : s >= 500
         \/ error.statusCode = {429}
    ELSE IF IsErrorInstance(error)
    THEN \E i \in 1..Len(error.message) : error.message[i] \in NetworkErrors
    ELSE FALSE

\* the delays of the comment on line 70: 1 s, 2 s, 4 s
DelayMsFromOneSecond(n) == (2 ^ (n - 1)) * 1000

\* retryWithBackoff, line 70
DelayMs(n) == (2 ^ n) * 1000

\* an exit code that treats every reason other than a signal as a failure
ExitCodeOfSignalsOnlyClean(signal) == IF signal = "SIGTERM" \/ signal = "SIGINT" THEN 0 ELSE 1

\* handleShutdown, line 287
ExitCodeOf(signal) == IF signal = "CRITICAL" \/ signal = "AUTH_ERROR" THEN 1 ELSE 0

InitialState ==
    [isRunning |-> TRUE, checkCount |-> 0, consecutiveErrors |-> 0,
     lastSuccessfulCheck |-> {}, lastCheckTime |-> {}, lastUpdateCount |-> {}]

\* 60 * 60 * 1000
STALE_SYNC_THRESHOLD_MS == 3600000

\* the time from the start of one pass to the start of the next, in ms: the
\* configured interval (IP_CHECK_INTERVAL=1200) and a pass that takes no time
CheckPeriodMs == 1200000

\* Date.getTime() of the check time of pass n (the first pass starts at one period)
TimeOf(n) == n * CheckPeriodMs

\* a health check that measures from the start of the worker (time 0) when
\* no pass has succeeded
CheckSyncHealthSinceStart(st) ==
    IF st.lastSuccessfulCheck = {}
    THEN TimeOf(st.checkCount + 1) > STALE_SYNC_THRESHOLD_MS
    ELSE \E last \in st.lastSuccessfulCheck :
            TimeOf(st.checkCount + 1) - TimeOf(last) > STALE_SYNC_THRESHOLD_MS

\* a health check that also warns at exactly the threshold
CheckSyncHealthAtThreshold(st) ==
    /\ st.lastSuccessfulCheck # {}
    /\ \E last \in st.lastSuccessfulCheck :
          TimeOf(st.checkCount + 1) - TimeOf(last) >= STALE_SYNC_THRESHOLD_MS

\* checkSyncHealth, called by the timer callback before pass st.checkCount + 1:
\* whether the warning is emitted
CheckSyncHealth(st) ==
    /\ st.lastSuccessfulCheck # {}
    /\ \E last \in st.lastSuccessfulCheck :
          TimeOf(st.checkCount + 1) - TimeOf(last) > STALE_SYNC_THRESHOLD_MS

-----------------------------------------------------------------------------
(* Control flow.  The operators below are the synchronous stretches of code *)
(* between two suspension points; the actions further down are the events   *)
(* that resume the thread of control.                                       *)

Zone == zones[zi]
RecordConfig == zones[zi].records[ri]

\* handleShutdown(signal): the process exits at once, whatever is in flight
HandleShutdown(signal, st) ==
    /\ state' = [st EXCEPT !.isRunning = FALSE]
    /\ exitCode' = {ExitCodeOf(signal)}
    /\ exitInfo' = [reason |-> signal, at |-> pc, error |-> {}]
    /\ timers' = 0
    /\ pc' = "exited"

\* scheduleNextCheck, reached through performDNSCheck().then(...)
ScheduleNextCheck(st) ==
    /\ state' = st
    /\ pc' = IF st.isRunning THEN "timer" ELSE "stopped"
    /\ timers' = IF st.isRunning THEN timers + 1 ELSE timers
    /\ UNCHANGED <<exitCode, exitInfo>>

\* a success branch that leaves the consecutive-failure counter alone
PassSucceededKeepsCounter(sum) ==
    /\ passResult' = "ok"
    /\ passError' = {}
    /\ ScheduleNextCheck([state EXCEPT !.lastSuccessfulCheck = state.lastCheckTime,
                                       !.lastUpdateCount = {Len(sum.updates)}])

\* performDNSCheck, lines 161-191: retryWithBackoff returned `sum`
PassSucceeded(sum) ==
    /\ passResult' = "ok"
    /\ passError' = {}
    /\ ScheduleNextCheck([state EXCEPT !.consecutiveErrors = 0,
                                       !.lastSuccessfulCheck = state.lastCheckTime,
                                       !.lastUpdateCount = {Len(sum.updates)}])

\* a catch block that treats only status 401 as an authentication failure
PassFailedOnly401(error) ==
    LET st == [state EXCEPT !.consecutiveErrors = @ + 1]
    IN /\ passResult' = "failed"
       /\ passError' = {error}
       /\ IF st.consecutiveErrors >= MAX_CONSECUTIVE_ERRORS
          THEN HandleShutdown("CRITICAL", st)
          ELSE IF error.class = "CloudflareAPIError" /\ error.statusCode = {401}
          THEN HandleShutdown("AUTH_ERROR", st)
          ELSE ScheduleNextCheck(st)

\* a catch block that lets the counter pass the ceiling by one
PassFailedStrictCeiling(error) ==
    LET st == [state EXCEPT !.consecutiveErrors = @ + 1]
    IN /\ passResult' = "failed"
       /\ passError' = {error}
       /\ IF st.consecutiveErrors > MAX_CONSECUTIVE_ERRORS
          THEN HandleShutdown("CRITICAL", st)
          ELSE IF /\ error.class = "CloudflareAPIError"
                  /\ (error.statusCode = {401} \/ error.statusCode = {403})
          THEN HandleShutdown("AUTH_ERROR", st)
          ELSE ScheduleNextCheck(st)

\* performDNSCheck, lines 192-220: retryWithBackoff threw `error`
PassFailed(error) ==
    LET st == [state EXCEPT !.consecutiveErrors = @ + 1]
    IN /\ passResult' = "failed"
       /\ passError' = {error}
       /\ IF st.consecutiveErrors >= MAX_CONSECUTIVE_ERRORS
          THEN HandleShutdown("CRITICAL", st)
          ELSE IF /\ error.class = "CloudflareAPIError"
                  /\ (error.statusCode = {401} \/ error.statusCode = {403})
          THEN HandleShutdown("AUTH_ERROR", st)
          ELSE ScheduleNextCheck(st)

\* retryWithBackoff, lines 60-80: fn() threw `error` in attempt `attempt`
RetryCatch(error) ==
    /\ lastError' = {error}
    /\ IF ~IsTransientError(error)
       THEN /\ PassFailed(error)
            /\ UNCHANGED <<attempt, delays>>
       ELSE IF attempt < MaxRetries
       THEN /\ delays' = Append(delays, DelayMs(attempt))
            /\ pc' = "sleep"
            /\ UNCHANGED <<attempt, state, exitCode, exitInfo, timers, passResult, passError>>
       ELSE /\ PassFailed(error)
            /\ UNCHANGED <<attempt, delays>>

\* an fn that issues the lookup of the first target together with its
\* discovery instead of after it
CallFnLooksUpAtOnce(n) ==
    /\ attempt' = n
    /\ summary' = IF reconciler = "shipped"
                  THEN [EmptySummary EXCEPT !.total = 1] ELSE EmptySummary
    /\ zi' = 1
    /\ ri' = 1
    /\ currentIP' = <<>>
    /\ existing' = {}
    /\ calls' = IF reconciler = "shipped"
                THEN <<Call("getDNSRecords", 1, 1, zones'[1].zoneId, {},
                            GetFilters(zones'[1].records[1]), {})>>
                ELSE <<>>
    /\ trace' = <<>>
    /\ pc' = IF reconciler = "shipped" THEN "discover" ELSE "fn"

\* retryWithBackoff, line 59, first part: fn() is called for attempt n.  The
\* shipped fn runs checkAndUpdateDNS up to the first discovery request.
CallFn(n) ==
    /\ attempt' = n
    /\ summary' = IF reconciler = "shipped"
                  THEN [EmptySummary EXCEPT !.total = 1] ELSE EmptySummary
    /\ zi' = 1
    /\ ri' = 1
    /\ currentIP' = <<>>
    /\ existing' = {}
    /\ calls' = <<>>
    /\ trace' = <<>>
    /\ pc' = IF reconciler = "shipped" THEN "discover" ELSE "fn"

\* performDNSCheck, lines 144-159, for a running worker
PerformDNSCheck(st) ==
    /\ state' = [st EXCEPT !.checkCount = @ + 1, !.lastCheckTime = {st.checkCount + 1}]
    /\ lastError' = {}
    /\ delays' = <<>>
    /\ passResult' = "none"
    /\ passError' = {}
    /\ CallFn(1)
    /\ UNCHANGED <<exitCode, exitInfo>>

\* one entry of the per-record log: the target, the suspension point the record
\* ended at, the address discovered, how the lookup ended ("none": not made,
\* "error", "missing", "found"), the record selected, what updateRecord returned
\* ("skipped", "updated") or "failed" when processZone caught its error
TraceEntry(result, error, lookup, rec) ==
    [z |-> zi, r |-> ri, stage |-> pc,
     ip |-> IF pc = "discover" THEN {} ELSE {currentIP},
     lookup |-> lookup, fetched |-> rec, result |-> result, error |-> error]

\* processZone and checkAndUpdateDNS: the record is done; go to the next record,
\* the next zone, or return the summary to retryWithBackoff
NextRecord(sum, entry) ==
    /\ trace' = Append(trace, entry)
    /\ currentIP' = <<>>
    /\ existing' = {}
    /\ UNCHANGED <<attempt, lastError, delays, calls>>
    /\ IF ri < Len(Zone.records)
       THEN /\ ri' = ri + 1
            /\ zi' = zi
            /\ summary' = [sum EXCEPT !.total = @ + 1]
            /\ pc' = "discover"
            /\ UNCHANGED <<state, exitCode, exitInfo, timers, passResult, passError>>
       ELSE IF zi < Len(zones)
       THEN /\ zi' = zi + 1
            /\ ri' = 1
            /\ summary' = [sum EXCEPT !.total = @ + 1]
            /\ pc' = "discover"
            /\ UNCHANGED <<state, exitCode, exitInfo, timers, passResult, passError>>
       ELSE /\ summary' = sum
            /\ UNCHANGED <<zi, ri>>
            /\ PassSucceeded(sum)

\* processZone, lines 67-74: updateRecord returned `result`
RecordReturned(result, rec) ==
    NextRecord(CountResult(summary, result), TraceEntry(result, {}, "found", {rec}))

\* processZone, lines 75-83: updateRecord threw `error`
RecordThrew(error, lookup) ==
    IF ProcessZoneCatches(error)
    THEN NextRecord(PushError(summary, Zone, RecordConfig, error),
                    TraceEntry("failed", {error}, lookup, existing))
    ELSE /\ trace' = Append(trace, TraceEntry("threw", {error}, lookup, existing))
         /\ RetryCatch(error)
         /\ UNCHANGED <<summary, zi, ri, currentIP, existing, calls>>

-----------------------------------------------------------------------------
(* Initial states: main() has validated the environment and awaits listZones *)

InitWith(r) ==
    /\ descriptors \in Configurations
    /\ reconciler = r
    /\ zones = <<>>
    /\ pc = "loading"
    /\ state = InitialState
    /\ exitCode = {}
    /\ exitInfo = [reason |-> "", at |-> "", error |-> {}]
    /\ timers = 0
    /\ staleWarning = FALSE
    /\ attempt = 0
    /\ lastError = {}
    /\ delays = <<>>
    /\ passResult = "none"
    /\ passError = {}
    /\ summary = EmptySummary
    /\ zi = 1
    /\ ri = 1
    /\ currentIP = <<>>
    /\ existing = {}
    /\ calls = <<>>
    /\ trace = <<>>

\* the detection service is not observed on its own
NoDiscovery ==
    [family |-> "IPv4", answers |-> <<>>, i |-> 0, errors |-> <<>>, contacted |-> <<>>,
     results |-> <<>>]

\* the provider client and the validators are not observed on their own
NoClient == [credentials |-> <<>>, constructed |-> {}, sent |-> 0, request |-> {}, last |-> {}]
NoValidation == [input |-> <<>>, verdict |-> {}]

Init ==
    /\ InitWith("shipped")
    /\ discovery = NoDiscovery
    /\ client = NoClient
    /\ validation = NoValidation

InitStub ==
    /\ InitWith("stub")
    /\ discovery = NoDiscovery
    /\ client = NoClient
    /\ validation = NoValidation

-----------------------------------------------------------------------------
(* Actions *)

\* main(): listZones settles; loadArrayConfig returns or throws; on success the
\* client is built, startWorker runs and the first performDNSCheck starts
LoadArrayConfig ==
    /\ pc = "loading"
    /\ \E raw \in RawZoneResponses :
         LET loaded == LoadArrayConfigResult(descriptors, raw)
         IN IF loaded.ok
            THEN /\ zones' = ValueOf(loaded)
                 /\ PerformDNSCheck(InitialState)
            ELSE /\ exitCode' = {1}
                 /\ exitInfo' = [reason |-> "STARTUP", at |-> pc, error |-> loaded.error]
                 /\ pc' = "exited"
                 /\ UNCHANGED <<zones, state, attempt, lastError, delays, passResult,
                                passError, summary, zi, ri, currentIP, existing,
                                calls, trace>>
    /\ UNCHANGED <<serviceVars, staleWarning, descriptors, reconciler, timers>>

\* a timer that stays armed after it fired (setInterval instead of setTimeout)
TickOfAnIntervalTimer ==
    /\ timers > 0
    /\ timers' = timers
    /\ state.isRunning
    /\ state.checkCount < (IF reconciler = "shipped" THEN MaxChecks ELSE MaxStubChecks)
    /\ PerformDNSCheck(state)
    /\ staleWarning' = CheckSyncHealth(state)
    /\ UNCHANGED <<serviceVars, descriptors, reconciler, zones>>

\* a timer set by scheduleNextCheck fires: checkSyncHealth, then performDNSCheck
Tick ==
    /\ timers > 0
    /\ timers' = timers - 1
    /\ state.isRunning
    /\ state.checkCount < (IF reconciler = "shipped" THEN MaxChecks ELSE MaxStubChecks)
    /\ PerformDNSCheck(state)
    /\ staleWarning' = CheckSyncHealth(state)
    /\ UNCHANGED <<serviceVars, descriptors, reconciler, zones>>

\* updateRecord, lines 93-97: the discovery call settles; on success
\* findDNSRecord issues getDNSRecords
Discover ==
    /\ pc = "discover"
    /\ \E found \in DiscoveryResults(RecordConfig.type) :
         IF found.ok
         THEN /\ currentIP' = ValueOf(found)
              /\ calls' = Append(calls, Call("getDNSRecords", zi, ri, Zone.zoneId, {},
                                             GetFilters(RecordConfig), {}))
              /\ pc' = "fetch"
              /\ UNCHANGED <<state, exitCode, exitInfo, timers, attempt, lastError, delays,
                             passResult, passError, summary, zi, ri, existing, trace>>
         ELSE RecordThrew(ErrorOf(found), "none")
    /\ UNCHANGED <<serviceVars, staleWarning, descriptors, reconciler, zones>>

\* updateRecord, lines 97-120: getDNSRecords settles; the record is selected and
\* compared; when the addresses differ updateDNSRecord is issued
Fetch ==
    /\ pc = "fetch"
    /\ \E raw \in RawGetResponses(RecordConfig) :
         LET got == Request("GET dns_records", raw)
         IN IF ~got.ok THEN RecordThrew(ErrorOf(got), "error")
            ELSE LET existingRecord == FindDNSRecord(ValueOf(got), RecordConfig)
                 IN IF existingRecord = {}
                    THEN RecordThrew(NotFoundError(Zone, RecordConfig), "missing")
                    ELSE LET rec == CHOOSE x \in existingRecord : TRUE
                         IN IF SameAddress(rec.content, currentIP)
                            THEN RecordReturned("skipped", rec)
                            ELSE /\ existing' = {rec}
                                 /\ calls' = Append(calls,
                                       Call("updateDNSRecord", zi, ri, Zone.zoneId, {rec.id}, {},
                                            {UpdatePayload(UpdateData(RecordConfig, rec, currentIP))}))
                                 /\ pc' = "update"
                                 /\ UNCHANGED <<state, exitCode, exitInfo, timers, attempt, lastError,
                                                delays, passResult, passError, summary, zi, ri,
                                                currentIP, trace>>
    /\ UNCHANGED <<serviceVars, staleWarning, descriptors, reconciler, zones>>

\* updateRecord, lines 114-124: updateDNSRecord settles
Update ==
    /\ pc = "update"
    /\ LET rec == CHOOSE x \in existing : TRUE
       IN \E raw \in RawPutResponses(rec, UpdateData(RecordConfig, rec, currentIP)) :
            LET put == Request("PUT dns_records", raw)
            IN IF put.ok THEN RecordReturned("updated", rec)
               ELSE RecordThrew(ErrorOf(put), "found")
    /\ UNCHANGED <<serviceVars, staleWarning, descriptors, reconciler, zones>>

\* SIGTERM or SIGINT arrives while the worker is alive: handleShutdown runs and
\* the process exits; what the reconciler held in memory is gone with it
Signal ==
    /\ pc \notin {"loading", "exited"}
    /\ \E sig \in {"SIGTERM", "SIGINT"} : HandleShutdown(sig, state)
    /\ summary' = EmptySummary
    /\ zi' = 1
    /\ ri' = 1
    /\ currentIP' = <<>>
    /\ existing' = {}
    /\ calls' = <<>>
    /\ trace' = <<>>
    /\ UNCHANGED <<serviceVars, staleWarning, descriptors, reconciler, zones, attempt, lastError, delays,
                   passResult, passError>>

\* the runtime emits 'uncaughtException' or 'unhandledRejection' (an exception
\* outside every try block, such as a write to a closed output stream): the
\* handlers registered by startWorker call handleShutdown
UncaughtError ==
    /\ pc \notin {"loading", "exited"}
    /\ \E reason \in {"UNCAUGHT_EXCEPTION", "UNHANDLED_REJECTION"} :
         HandleShutdown(reason, state)
    /\ summary' = EmptySummary
    /\ zi' = 1
    /\ ri' = 1
    /\ currentIP' = <<>>
    /\ existing' = {}
    /\ calls' = <<>>
    /\ trace' = <<>>
    /\ UNCHANGED <<serviceVars, staleWarning, descriptors, reconciler, zones, attempt, lastError, delays,
                   passResult, passError>>

Next == LoadArrayConfig \/ Tick \/ Discover \/ Fetch \/ Update \/ Signal \/ UncaughtError

Spec == Init /\ [][Next]_vars

-----------------------------------------------------------------------------
(* The worker around a reconciler that may throw: retryWithBackoff and       *)
(* performDNSCheck take any async function; here fn settles arbitrarily.     *)

StubSummaries ==
    {EmptySummary,
     [updates |-> <<[zone |-> "example.com", record |-> <<"www", "example.com">>,
                     oldIP |-> IP_10_0_0_1, newIP |-> IP_10_0_0_2]>>,
      errors |-> <<>>, skipped |-> 0, total |-> 1]}

StubErrors ==
    {CloudflareAPIError(<<"Cloudflare API error:", "provider error">>, {s}) :
        s \in {400, 401, 403, 404, 429, 500, 502, 503}}
    \cup {CloudflareAPIError(<<"Request timeout (10s) for", "GET dns_records">>, {}),
          CloudflareAPIError(<<"Failed to", "GET dns_records", "connect", "ECONNREFUSED">>, {}),
          PlainError(<<"read", "ECONNRESET">>),
          PlainError(<<"Cannot read properties of undefined">>),
          IPDetectionError(<<"Failed to detect", "public IPv4">>),
          MkError("NotAnError", {}, <<"rejected with a string">>)}

\* fn() settles
FnSettles ==
    /\ pc = "fn"
    /\ \/ \E sum \in StubSummaries :
            /\ summary' = sum
            /\ PassSucceeded(sum)
            /\ UNCHANGED <<attempt, lastError, delays>>
       \/ \E error \in StubErrors :
            /\ RetryCatch(error)
            /\ UNCHANGED summary
    /\ UNCHANGED <<serviceVars, staleWarning, descriptors, reconciler, zones, zi, ri, currentIP, existing, calls, trace>>

\* retryWithBackoff, line 74: the backoff timer fires, the loop calls fn again
SleepDone ==
    /\ pc = "sleep"
    /\ CallFn(attempt + 1)
    /\ UNCHANGED <<serviceVars, staleWarning, descriptors, reconciler, zones, state, exitCode, exitInfo, timers, lastError,
                   delays, passResult, passError>>

-----------------------------------------------------------------------------
(* The worker started on a configuration that its caller built: startWorker
   (worker.ts 109) and checkAndUpdateDNS are exported, and a RecordConfig may
   then carry the identifier of its record (types/config.ts, `id?: string`) *)

\* targets with an identifier, with an empty identifier, without one
T_id == [name |-> <<"www", "example.com">>, type |-> "A", proxied |-> {}, id |-> {"rec-2"}]
T_emptyId == [name |-> <<"example.com">>, type |-> "A", proxied |-> {TRUE}, id |-> {""}]
T_plain == [name |-> <<"ipv6", "example.com">>, type |-> "AAAA", proxied |-> {FALSE}, id |-> {}]

ZoneOf(records) == [zoneId |-> "zid-com", domain |-> "example.com", records |-> records]

BuiltConfigurations ==
    {<<ZoneOf(<<T_id>>)>>, <<ZoneOf(<<T_emptyId>>)>>, <<ZoneOf(<<T_plain>>)>>,
     <<ZoneOf(<<T_id, T_plain>>)>>, <<ZoneOf(<<T_plain>>), ZoneOf(<<T_id>>)>>}

InitBuilt ==
    /\ descriptors = <<>>
    /\ reconciler = "shipped"
    /\ zones \in BuiltConfigurations
    /\ pc = "start"
    /\ state = InitialState
    /\ exitCode = {}
    /\ exitInfo = [reason |-> "", at |-> "", error |-> {}]
    /\ timers = 0
    /\ staleWarning = FALSE
    /\ attempt = 0
    /\ lastError = {}
    /\ delays = <<>>
    /\ passResult = "none"
    /\ passError = {}
    /\ summary = EmptySummary
    /\ zi = 1
    /\ ri = 1
    /\ currentIP = <<>>
    /\ existing = {}
    /\ calls = <<>>
    /\ trace = <<>>
    /\ discovery = NoDiscovery
    /\ client = NoClient
    /\ validation = NoValidation

\* startWorker, line 268: the first performDNSCheck
StartWorker ==
    /\ pc = "start"
    /\ PerformDNSCheck(InitialState)
    /\ UNCHANGED <<serviceVars, staleWarning, descriptors, reconciler, zones, timers>>

NextBuilt == StartWorker \/ Tick \/ Discover \/ Fetch \/ Update

SpecBuilt == InitBuilt /\ [][NextBuilt]_vars

NextStub == LoadArrayConfig \/ Tick \/ FnSettles \/ SleepDone \/ Signal \/ UncaughtError

SpecStub == InitStub /\ [][NextStub]_vars

-----------------------------------------------------------------------------
(* The IP detection service on its own: getPublicIPv4 / getPublicIPv6 called  *)
(* repeatedly against echo services whose answers do not change.             *)

IP_999_0_0_1 == <<"9", "9", "9", ".", "0", ".", "0", ".", "1">>
IP_10_0_0_2_padded == <<" ", "1", "0", ".", "0", ".", "0", ".", "2", " ">>

\* the answers a JSON echo service gives in the model
JsonAnswers ==
    {EchoAbort, EchoReject, EchoStatus(503), EchoNotJson, EchoJsonWithoutIp,
     EchoJson(IP_10_0_0_1), EchoJson(IP_10_0_0_2_padded), EchoJson(IP6_a),
     EchoJson(IP_999_0_0_1)}

\* the answers a plain-text echo service gives in the model
PlainAnswers ==
    {EchoAbort, EchoStatus(503), EchoText(IP_10_0_0_1), EchoText(IP_10_0_0_2_padded),
     EchoText(IP6_B), EchoText(IP_999_0_0_1), EchoText(<<"o", "k">>)}

AnswersOf(provider) == IF provider.format = "json" THEN JsonAnswers ELSE PlainAnswers

\* one answer per provider of the family's list
AnswerTuples(family) ==
    LET ps == ProvidersOf(family)
    IN {a \in [DOMAIN ps -> JsonAnswers \cup PlainAnswers] :
           \A k \in DOMAIN ps : a[k] \in AnswersOf(ps[k])}

InitDiscovery ==
    /\ InitWith("shipped")
    /\ descriptors = <<D_www>>
    /\ \E family \in {"IPv4", "IPv6"} : \E answers \in AnswerTuples(family) :
          discovery = [NoDiscovery EXCEPT !.family = family, !.answers = answers]
    /\ client = NoClient
    /\ validation = NoValidation

\* tryProviders returned or threw: getPublicIPv4 / getPublicIPv6 settles
DiscoverySettles(outcome) ==
    discovery' = [discovery EXCEPT
                    !.i = 0,
                    !.results = Append(@, [result |-> outcome,
                                           contacted |-> discovery.contacted])]

\* getPublicIPv4() or getPublicIPv6() is called: tryProviders calls the first provider
GetPublicIP ==
    /\ discovery.i = 0
    /\ discovery.answers # <<>>
    /\ Len(discovery.results) < MaxDiscoveries
    /\ discovery' = [discovery EXCEPT
                       !.i = 1,
                       !.errors = <<>>,
                       !.contacted = <<ProvidersOf(discovery.family)[1].url>>]
    /\ UNCHANGED <<workerVars, client, validation>>

\* a loop that gives up at the first provider that fails
ProviderSettlesWithoutFallback ==
    /\ discovery.i > 0
    /\ LET ps == ProvidersOf(discovery.family)
           out == CallProvider(ps[discovery.i], discovery.answers[discovery.i])
       IN IF out.ok
          THEN DiscoverySettles(FamilyChecked(discovery.family, ValueOf(out)))
          ELSE DiscoverySettles(Thrown(AllProvidersFailed(discovery.family,
                                                           <<ErrorOf(out).message>>)))
    /\ UNCHANGED <<workerVars, client, validation>>

\* a loop that reports only the failure of the last provider
ProviderSettlesKeepsLastError ==
    /\ discovery.i > 0
    /\ LET ps == ProvidersOf(discovery.family)
           out == CallProvider(ps[discovery.i], discovery.answers[discovery.i])
           errors == <<ErrorOf(out).message>>
       IN IF out.ok
          THEN DiscoverySettles(FamilyChecked(discovery.family, ValueOf(out)))
          ELSE IF discovery.i < Len(ps)
          THEN discovery' = [discovery EXCEPT
                               !.i = @ + 1,
                               !.errors = errors,
                               !.contacted = Append(@, ps[discovery.i + 1].url)]
          ELSE DiscoverySettles(Thrown(AllProvidersFailed(discovery.family, errors)))
    /\ UNCHANGED <<workerVars, client, validation>>

\* tryProviders, lines 226-238: the provider that was called settles
ProviderSettles ==
    /\ discovery.i > 0
    /\ LET ps == ProvidersOf(discovery.family)
           out == CallProvider(ps[discovery.i], discovery.answers[discovery.i])
           errors == Append(discovery.errors, ErrorOf(out).message)
       IN IF out.ok
          THEN DiscoverySettles(FamilyChecked(discovery.family, ValueOf(out)))
          ELSE IF discovery.i < Len(ps)
          THEN discovery' = [discovery EXCEPT
                               !.i = @ + 1,
                               !.errors = errors,
                               !.contacted = Append(@, ps[discovery.i + 1].url)]
          ELSE DiscoverySettles(Thrown(AllProvidersFailed(discovery.family, errors)))
    /\ UNCHANGED <<workerVars, client, validation>>

NextDiscovery == GetPublicIP \/ ProviderSettles

SpecDiscovery == InitDiscovery /\ [][NextDiscovery]_vars

-----------------------------------------------------------------------------
(* The provider client on its own (src/src/services/cloudflare.ts): a client
   is constructed from some credentials and sends requests, each of which the
   network answers in some way *)

\* what the environment holds for each credential (absent, empty, a value)
CredentialSets ==
    {Config(t, e, k) : t \in {{}, {""}, {"token"}},
                       e \in {{}, {""}, {"me@example.com"}},
                       k \in {{}, {""}, {"key"}}}

\* the `data` a caller hands to updateDNSRecord
UpdateInputs ==
    {[type |-> "A", content |-> IP_10_0_0_1, name |-> n, ttl |-> t, proxied |-> x] :
        n \in {{}, {"www.example.com"}}, t \in {{}, {0}, {300}}, x \in {{}, {TRUE}, {FALSE}}}

\* what the network produces for a request of the client
ClientRawResponses ==
    RawFailures
    \cup {RawUnparsable(200),
          RawEnvelope(200, TRUE, <<>>, {"result"}),
          RawEnvelope(201, TRUE, <<>>, {"result"}),
          RawEnvelope(200, TRUE, <<>>, {"null"}),
          RawEnvelope(404, TRUE, <<>>, {"result"}),
          RawEnvelope(500, TRUE, <<>>, {}),
          RawEnvelope(200, FALSE, <<"provider error", "another error">>, {}),
          RawEnvelope(200, FALSE, <<"provider error">>, {"result"})}

InitClient ==
    /\ InitWith("shipped")
    /\ descriptors = <<D_www>>
    /\ discovery = NoDiscovery
    /\ validation = NoValidation
    /\ \E config \in CredentialSets : client = [NoClient EXCEPT !.credentials = config]

\* new CloudflareClient(config)
Construct ==
    /\ client.constructed = {}
    /\ client' = [client EXCEPT !.constructed = {Constructor(client.credentials)}]
    /\ UNCHANGED <<workerVars, discovery, validation>>

\* the client exists: the constructor returned
Constructed == \E c \in client.constructed : c.ok

\* request(method, endpoint, body) up to the await of fetch
Send(method, data, body) ==
    /\ Constructed
    /\ client.request = {}
    /\ client.sent < MaxRequests
    /\ client' = [client EXCEPT !.sent = @ + 1,
                                !.request = {[method |-> method, data |-> data, body |-> body]},
                                !.last = {}]
    /\ UNCHANGED <<workerVars, discovery, validation>>

\* getDNSRecords, getZone, verifyAuthentication, listZones: a GET without body
GetRequest == Send("GET", {}, {})

\* updateDNSRecord(zoneId, recordId, data)
UpdateDNSRecord == \E data \in UpdateInputs : Send("PUT", {data}, {UpdatePayload(data)})

\* request(method, endpoint, body) from the await of fetch to its end
RequestSettles ==
    /\ client.request # {}
    /\ \E req \in client.request : \E raw \in ClientRawResponses :
          client' = [client EXCEPT !.request = {},
                                  !.last = {[method |-> req.method, data |-> req.data,
                                             body |-> req.body, raw |-> raw,
                                             outcome |-> Request(req.method, raw)]}]
    /\ UNCHANGED <<workerVars, discovery, validation>>

NextClient == Construct \/ GetRequest \/ UpdateDNSRecord \/ RequestSettles

SpecClient == InitClient /\ [][NextClient]_vars

-----------------------------------------------------------------------------
(* The address validators on their own (src/src/index.ts 97-131): a string is
   handed to isValidIPv4, isValidIPv6, isValidIP *)

\* the groups joined by the character sep
RECURSIVE Join(_, _)
Join(groups, sep) ==
    IF Len(groups) = 0 THEN <<>>
    ELSE IF Len(groups) = 1 THEN groups[1]
    ELSE groups[1] \o <<sep>> \o Join(Tail(groups), sep)

\* the groups of the dotted strings: empty, 0, 255, 256, 0001, and two that
\* are not decimal ("1a", "0 ")
V4Groups ==
    {<<>>, <<"0">>, <<"2", "5", "5">>, <<"2", "5", "6">>, <<"0", "0", "0", "1">>,
     <<"1", "a">>, <<"0", " ">>}

V4Inputs ==
    {Join(gs, ".") : gs \in UNION {[1..n -> V4Groups] : n \in 1..MaxV4Groups}}

\* the groups of the colon-separated strings: empty and aB12; in one place of
\* a string possibly a group of five digits, of a letter that is not
\* hexadecimal, or with a dot
V6Groups == {<<>>, <<"a", "B", "1", "2">>}

V6OddGroups == {<<"1", "2", "3", "4", "5">>, <<"g">>, <<"1", ".", "2">>}

V6Inputs ==
    {Join(gs, ":") : gs \in UNION {[1..n -> V6Groups] : n \in 1..MaxV6Groups}}
    \cup {Join([gs EXCEPT ![k] = odd], ":") :
            gs \in UNION {[1..n -> {<<"a", "B", "1", "2">>}] : n \in 1..MaxV6Groups},
            k \in 1..MaxV6Groups, odd \in V6OddGroups}

ValidatorInputs == V4Inputs \cup V6Inputs \cup {IP_10_0_0_1, IP_10_0_0_1_padded, IP6_a, IP6_A}

InitValidators ==
    /\ InitWith("shipped")
    /\ descriptors = <<D_www>>
    /\ discovery = NoDiscovery
    /\ client = NoClient
    /\ \E s \in ValidatorInputs : validation = [NoValidation EXCEPT !.input = s]

\* a validator is called with the input and settles
Validated(fn, outcome) ==
    /\ validation' = [validation EXCEPT !.verdict = {[fn |-> fn, outcome |-> outcome]}]
    /\ UNCHANGED <<workerVars, discovery, client>>

CallIsValidIPv4 == Validated("isValidIPv4", Returned(IsValidIPv4(validation.input)))

CallIsValidIPv6 == Validated("isValidIPv6", Returned(IsValidIPv6(validation.input)))

CallIsValidIP == Validated("isValidIP", Returned(IsValidIP(validation.input)))

NextValidators == CallIsValidIPv4 \/ CallIsValidIPv6 \/ CallIsValidIP

SpecValidators == InitValidators /\ [][NextValidators]_vars

-----------------------------------------------------------------------------
(* Vocabulary of the properties *)

\* an address string without its surrounding blanks
Stripped(s) ==
    LET keep == {i \in 1..Len(s) : s[i] # " "}
    IN IF keep = {} THEN <<>>
       ELSE SubSeq(s, CHOOSE i \in keep : \A j \in keep : i <= j,
                      CHOOSE i \in keep : \A j \in keep : i >= j)

UpperChar(c) ==
    CASE c = "a" -> "A" [] c = "b" -> "B" [] c = "c" -> "C"
      [] c = "d" -> "D" [] c = "e" -> "E" [] c = "f" -> "F"
      [] OTHER -> c

\* two address strings denote the same address: equal once surrounding blanks
\* are dropped and letter case is ignored
SameUpToCaseAndBlanks(a, b) ==
    LET x == Stripped(a)
        y == Stripped(b)
    IN /\ Len(x) = Len(y)
       /\ \A i \in 1..Len(x) : UpperChar(x[i]) = UpperChar(y[i])

\* position of record r of zone z in the order the targets are processed
TargetIndex(z, r) ==
    LET RECURSIVE Before(_)
        Before(k) == IF k = 0 THEN 0 ELSE Len(zones[k].records) + Before(k - 1)
    IN Before(z - 1) + r

\* the calls of an operation issued for target (z, r) in this attempt
CallsFor(op, z, r) ==
    {i \in DOMAIN calls : calls[i].op = op /\ calls[i].z = z /\ calls[i].r = r}

\* the calls other than reads issued for target (z, r) in this attempt
WriteCallsFor(z, r) ==
    {i \in DOMAIN calls : calls[i].op # "getDNSRecords" /\ calls[i].z = z /\ calls[i].r = r}

\* the pass has run to its end (and the log of its last attempt is still there)
PassCompleted ==
    /\ passResult # "none"
    /\ exitInfo.reason \notin {"SIGTERM", "SIGINT", "UNCAUGHT_EXCEPTION", "UNHANDLED_REJECTION"}

\* the descriptor target (z, r) was loaded from
DescriptorOf(z, r) ==
    LET rc == zones[z].records[r]
    IN descriptors[CHOOSE i \in DOMAIN descriptors :
                     /\ descriptors[i].zone = zones[z].domain
                     /\ RecordOf(descriptors[i]).name = rc.name
                     /\ RecordOf(descriptors[i]).type = rc.type]

\* entry e of the log is about a record that was fetched together with a
\* discovered address
Compared(e) == e.ip # {} /\ e.fetched # {}

IpOf(e) == CHOOSE a \in e.ip : TRUE
FetchedOf(e) == CHOOSE x \in e.fetched : TRUE
ExistingRecord == CHOOSE x \in existing : TRUE

-----------------------------------------------------------------------------
(* Reconciliation of one target *)

\* C1: in a pass, every target whose discovered address equals the fetched
\* record's content once both are trimmed and case-folded ends as 'skipped', and
\* no updateDNSRecord call is issued for it (neither completed nor in flight).
C1_EqualAddressIsSkipped ==
    /\ \A i \in DOMAIN trace :
         (Compared(trace[i]) /\ SameUpToCaseAndBlanks(FetchedOf(trace[i]).content, IpOf(trace[i])))
         => /\ trace[i].result = "skipped"
            /\ CallsFor("updateDNSRecord", trace[i].z, trace[i].r) = {}
    /\ pc = "update" => ~SameUpToCaseAndBlanks(ExistingRecord.content, currentIP)

\* a target was skipped although the two strings differ in letter case, and no
\* update call was issued for it
C1_Witness ==
    \E i \in DOMAIN trace :
        /\ trace[i].result = "skipped"
        /\ Compared(trace[i])
        /\ FetchedOf(trace[i]).content = IP6_A
        /\ IpOf(trace[i]) = IP6_a
        /\ CallsFor("updateDNSRecord", trace[i].z, trace[i].r) = {}

\* the update call for target (z, r), fetched record rec and discovered address ip
\* is the only one, goes to the record's id in the target's zone, and carries the
\* discovered address (in its trimmed, lower-case form) with the record's name and TTL
IsTheOneUpdate(z, r, rec, ip) ==
    LET cs == CallsFor("updateDNSRecord", z, r)
    IN /\ Cardinality(cs) = 1
       /\ \A i \in cs :
            /\ calls[i].zoneId = zones[z].zoneId
            /\ calls[i].recordId = {rec.id}
            /\ \A d \in calls[i].data :
                 /\ d.content = Normalize(ip)
                 /\ SameUpToCaseAndBlanks(d.content, ip)
                 /\ d.name = {rec.name}
                 /\ d.ttl = {rec.ttl}
            /\ calls[i].data # {}

\* C2: for every target whose discovered address differs (after normalization)
\* from the fetched record's content, exactly one updateDNSRecord call is issued
\* in the pass for that target, to the fetched record's id, carrying the
\* discovered address as content and the fetched record's name and TTL.
C2_DifferentAddressIsUpdatedOnce ==
    /\ \A i \in DOMAIN trace :
         (Compared(trace[i]) /\ ~SameUpToCaseAndBlanks(FetchedOf(trace[i]).content, IpOf(trace[i])))
         => IsTheOneUpdate(trace[i].z, trace[i].r, FetchedOf(trace[i]), IpOf(trace[i]))
    /\ pc = "update" => IsTheOneUpdate(zi, ri, ExistingRecord, currentIP)

\* an update of a record with TTL 300 went through, from an upper-case address
C2_Witness ==
    \E i \in DOMAIN trace :
        /\ trace[i].result = "updated"
        /\ Compared(trace[i])
        /\ FetchedOf(trace[i]).ttl = 300
        /\ IpOf(trace[i]) = IP6_B
        /\ Cardinality(CallsFor("updateDNSRecord", trace[i].z, trace[i].r)) = 1

\* C3: every target whose update succeeded appears in Summary.updates with the
\* old and the new address; after a pass over a single target whose update
\* succeeded the summary has one update, skipped 0 and no failure.
C3_UpdateIsReported ==
    /\ \A i \in DOMAIN trace :
         trace[i].result = "updated"
         => \E j \in DOMAIN summary.updates :
               /\ summary.updates[j].record = zones[trace[i].z].records[trace[i].r].name
               /\ summary.updates[j].oldIP = Normalize(FetchedOf(trace[i]).content)
               /\ summary.updates[j].newIP = Normalize(IpOf(trace[i]))
    /\ (PassCompleted /\ Len(trace) = 1 /\ NumRecords(zones) = 1 /\ trace[1].result = "updated")
       => /\ Len(summary.updates) = 1
          /\ summary.skipped = 0
          /\ summary.errors = <<>>

\* C4: the proxy flag an update writes is the configured flag when the operator
\* set one in the descriptor, and the existing record's flag otherwise; so a
\* target declared without a proxy flag never flips a proxied record.
C4_ProxyFlagPreserved ==
    pc = "update"
    => \A d \in calls[Len(calls)].data :
          IF DescriptorOf(zi, ri).proxy = "undefined"
          THEN d.proxied = {ExistingRecord.proxied}
          ELSE d.proxied = {ParseBoolean(DescriptorOf(zi, ri).proxy, FALSE)}

\* C5: when the lookup for a target returns no matching record, the target is a
\* failure recorded in Summary.errors with a message naming the zone, no write
\* call is issued for it, and the targets after it are still processed.
C5_MissingRecordIsAFailure ==
    /\ \A i \in DOMAIN trace :
         trace[i].lookup = "missing"
         => /\ trace[i].result = "failed"
            /\ WriteCallsFor(trace[i].z, trace[i].r) = {}
            /\ \A k \in DOMAIN calls : calls[k].op \in {"getDNSRecords", "updateDNSRecord"}
            /\ \E j \in DOMAIN summary.errors :
                  /\ summary.errors[j].zone = zones[trace[i].z].domain
                  /\ summary.errors[j].record = zones[trace[i].z].records[trace[i].r].name
                  /\ \E k \in DOMAIN summary.errors[j].error :
                        summary.errors[j].error[k] = zones[trace[i].z].domain
            /\ IF i < NumRecords(zones)
               THEN \/ Len(trace) > i
                    \/ pc \in {"discover", "fetch", "update"} /\ TargetIndex(zi, ri) = i + 1
               ELSE passResult = "ok"

\* the first of two targets had no record, the second was processed all the same
C5_Witness ==
    /\ Len(trace) = 2
    /\ trace[1].lookup = "missing"
    /\ trace[2].result = "updated"
    /\ Len(summary.errors) = 1
    /\ passResult = "ok"

\* the failed entries of the log, in order
RECURSIVE FailuresOf(_)
FailuresOf(t) ==
    IF t = <<>> THEN <<>>
    ELSE IF Head(t).result = "failed"
    THEN <<Head(t)>> \o FailuresOf(Tail(t))
    ELSE FailuresOf(Tail(t))

\* C6: checkAndUpdateDNS never throws, whatever discovery and the provider client
\* do: every failure is one entry of Summary.errors for its target, and every
\* configured target of every zone is attempted exactly once, in order, whatever
\* happened to the targets before it.
C6_FailuresAreCapturedPerTarget ==
    /\ passResult # "failed"
    /\ pc # "sleep"
    /\ attempt <= 1
    /\ \A i \in DOMAIN trace :
         /\ trace[i].result \in {"skipped", "updated", "failed"}
         /\ TargetIndex(trace[i].z, trace[i].r) = i
         /\ trace[i].z \in DOMAIN zones
         /\ trace[i].r \in DOMAIN zones[trace[i].z].records
    /\ Len(trace) <= NumRecords(zones)
    /\ PassCompleted => Len(trace) = NumRecords(zones)
    /\ LET failed == FailuresOf(trace)
       IN /\ Len(summary.errors) = Len(failed)
          /\ \A j \in DOMAIN failed :
               /\ summary.errors[j].zone = zones[failed[j].z].domain
               /\ summary.errors[j].record = zones[failed[j].z].records[failed[j].r].name
               /\ \A e \in failed[j].error : summary.errors[j].error = e.message

\* a pass over two zones ended with both targets failed (a discovery failure,
\* then a provider failure) and both in the summary
C6_Witness ==
    /\ PassCompleted
    /\ Len(zones) = 2
    /\ Len(trace) = 2
    /\ trace[1].result = "failed" /\ trace[1].stage = "discover"
    /\ trace[2].result = "failed" /\ trace[2].stage = "update"
    /\ Len(summary.errors) = 2

-----------------------------------------------------------------------------
(* Retry wrapper *)

\* the error is a transport-level failure: no HTTP status, and a message that
\* reports a timeout or a connection failure
TransportLevel(e) ==
    /\ e.class # "NotAnError"
    /\ e.statusCode = {}
    /\ \E i \in DOMAIN e.message :
          e.message[i] \in {"Request timeout (10s) for", "ECONNREFUSED", "ENOTFOUND",
                            "ETIMEDOUT", "ECONNRESET"}

\* the failures the specification calls retryable
Retryable(e) ==
    \/ \E s \in e.statusCode : s >= 500 \/ s = 429
    \/ TransportLevel(e)

LastError == CHOOSE e \in lastError : TRUE

\* C7: retryWithBackoff invokes the wrapped function at most 3 times per pass;
\* it invokes it again only after an attempt failed with a retryable failure; a
\* non-retryable failure (any 4xx other than 429 included) ends the wrapper after
\* that attempt with that same error; a successful attempt ends it; and a failed
\* third attempt is never followed by a wait: the pass fails with the last error.
C7_BoundedRetryOnRetryableOnly ==
    /\ attempt \in 0..3
    /\ (pc = "sleep" \/ (pc = "fn" /\ attempt >= 2))
       => lastError # {} /\ Retryable(LastError)
    /\ pc = "fn" => Len(delays) = attempt - 1
    /\ pc = "sleep" => Len(delays) = attempt /\ attempt < 3
    /\ (lastError # {} /\ ~Retryable(LastError))
       => passResult = "failed" /\ passError = lastError /\ pc \notin {"fn", "sleep"}
    /\ passResult = "ok" => pc \notin {"fn", "sleep"} /\ passError = {}
    /\ passResult = "failed" => passError = lastError /\ passError # {}

\* a pass failed after three attempts that each ended in a retryable failure
C7_Witness ==
    /\ passResult = "failed"
    /\ attempt = 3
    /\ Len(delays) = 2
    /\ passError = {CloudflareAPIError(<<"Cloudflare API error:", "provider error">>, {503})}

\* C8: the delays the retry wrapper waits between attempts double starting at
\* 1 second: 1 s after the first failed attempt, then 2 s, then 4 s.
C8_DelaysDoubleFromOneSecond ==
    \A i \in DOMAIN delays : delays[i] = (2 ^ (i - 1)) * 1000

\* C9: when a provider-client call of a pass (record fetch or record update)
\* fails with status 429, 500 or 503, the pass is retried: no pass ends as
\* succeeded on an attempt in which such a failure occurred.
C9_ProviderFailureRetriesThePass ==
    passResult = "ok"
    => \A i \in DOMAIN trace :
          \A e \in trace[i].error :
             ~(e.class = "CloudflareAPIError" /\ e.statusCode \in {{429}, {500}, {503}})

\* C10: a transport-level failure of a provider-client call (timeout, connection
\* refused or reset: a provider error without status code) is classified
\* retryable by the retry logic, like status >= 500 and status 429.
C10_TransportFailureIsRetryable ==
    \A i \in DOMAIN trace :
       \A e \in trace[i].error :
          (e.class = "CloudflareAPIError" /\ TransportLevel(e)) => IsTransientError(e)

-----------------------------------------------------------------------------
(* Worker loop: failures of a pass *)

\* the error carries an authentication-class status
AuthStatus(e) == \E s \in e.statusCode : s = 401 \/ s = 403

PassError == CHOOSE e \in passError : TRUE

\* C11: whenever a pass fails with a provider error whose status is 401 or 403,
\* the process has exited with status 1 in that same pass (reason AUTH_ERROR, or
\* CRITICAL when that failure was also the tenth in a row) and no tick is
\* scheduled, whatever the consecutive-failure counter was, 0 included.
C11_AuthFailureIsFatal ==
    (passResult = "failed" /\ passError # {} /\ PassError.class = "CloudflareAPIError"
        /\ AuthStatus(PassError))
    => /\ pc = "exited"
       /\ exitCode = {1}
       /\ exitInfo.reason \in {"AUTH_ERROR", "CRITICAL"}
       /\ exitInfo.at = "fn"
       /\ ~state.isRunning

\* the very first pass failed with status 403 (the counter was 0) and the
\* process exited with status 1
C11_Witness ==
    /\ passResult = "failed"
    /\ passError # {} /\ PassError.statusCode = {403}
    /\ state.checkCount = 1
    /\ state.consecutiveErrors = 1
    /\ exitInfo.reason = "AUTH_ERROR"
    /\ exitCode = {1}

\* C12: if the provider answers the record fetch or the record update of a pass
\* with status 401 or 403, the worker exits with an authentication error once
\* that pass is over instead of scheduling the next one.
C12_AuthFailureInPassExits ==
    (PassCompleted /\ \E i \in DOMAIN trace : \E e \in trace[i].error :
                         e.class = "CloudflareAPIError" /\ AuthStatus(e))
    => /\ pc = "exited"
       /\ exitInfo.reason = "AUTH_ERROR"

\* C13: counted from 0, consecutive failed passes 1 to 9 that are not
\* authentication failures leave the worker running with the next tick
\* scheduled; the 10th consecutive failed pass ends the process with status 1
\* (reason CRITICAL), so the counter never exceeds 10 and no pass starts after it
\* reached 10.
C13_TenthConsecutiveFailureIsFatal ==
    /\ state.consecutiveErrors \in 0..10
    /\ state.consecutiveErrors <= state.checkCount
    /\ (PassCompleted /\ passResult = "failed" /\ state.consecutiveErrors < 10
            /\ ~(PassError.class = "CloudflareAPIError" /\ AuthStatus(PassError)))
       => /\ pc = "timer"
          /\ state.isRunning
          /\ exitCode = {}
    /\ state.consecutiveErrors = 10
       => /\ pc = "exited"
          /\ passResult = "failed"
          /\ exitInfo.reason = "CRITICAL"
          /\ exitCode = {1}
    /\ exitInfo.reason = "CRITICAL" => state.consecutiveErrors = 10

\* ten passes, all failed without an authentication failure, and the process
\* exited with status 1 in the tenth
C13_Witness ==
    /\ state.checkCount = 10
    /\ state.consecutiveErrors = 10
    /\ state.lastSuccessfulCheck = {}
    /\ passError # {} /\ ~AuthStatus(PassError)
    /\ exitInfo.reason = "CRITICAL"
    /\ exitCode = {1}

\* the passes that ran to their end, and the ordinal of the last successful one
\* (the check time of a pass is its ordinal; 0 when none succeeded)
CompletedPasses ==
    IF passResult = "none" THEN state.checkCount - 1 ELSE state.checkCount

LastSuccess ==
    IF state.lastSuccessfulCheck = {} THEN 0
    ELSE CHOOSE n \in state.lastSuccessfulCheck : TRUE

\* C14: a successful pass leaves the consecutive-failure counter at 0 and the
\* last-success timestamp at that pass's check time; hence, once the worker has
\* started, the counter equals the number of passes completed since the last
\* successful pass (all of them failed), or since start when none succeeded.
C14_SuccessResetsTheCounter ==
    /\ passResult = "ok"
       => /\ state.consecutiveErrors = 0
          /\ state.lastSuccessfulCheck = state.lastCheckTime
          /\ state.lastSuccessfulCheck = {state.checkCount}
    /\ state.checkCount >= 1
       => state.consecutiveErrors = CompletedPasses - LastSuccess
    /\ exitInfo.reason = "CRITICAL" => state.checkCount - LastSuccess = 10

\* pass 3 succeeded, passes 4 and 5 failed: the counter is 2
C14_Witness ==
    /\ state.checkCount = 5
    /\ state.lastSuccessfulCheck = {3}
    /\ passResult = "failed"
    /\ state.consecutiveErrors = 2
    /\ pc = "timer"

-----------------------------------------------------------------------------
(* Shutdown *)

\* C15: the shutdown routine exits with status 1 exactly when its reason is
\* CRITICAL or AUTH_ERROR, and with status 0 for SIGTERM, SIGINT,
\* UNCAUGHT_EXCEPTION and UNHANDLED_REJECTION.
C15_ExitStatusByReason ==
    (pc = "exited" /\ exitInfo.reason # "STARTUP")
    => /\ exitInfo.reason \in {"CRITICAL", "AUTH_ERROR", "SIGTERM", "SIGINT",
                               "UNCAUGHT_EXCEPTION", "UNHANDLED_REJECTION"}
       /\ exitInfo.reason \in {"CRITICAL", "AUTH_ERROR"} => exitCode = {1}
       /\ exitInfo.reason \notin {"CRITICAL", "AUTH_ERROR"} => exitCode = {0}
       /\ ~state.isRunning

\* the process exited with status 0 on an unhandled rejection after failed passes
C15_Witness ==
    /\ pc = "exited"
    /\ exitInfo.reason = "UNHANDLED_REJECTION"
    /\ state.consecutiveErrors = 3
    /\ exitCode = {0}

\* C16: when SIGTERM or SIGINT arrives while a pass is in flight, the pass runs
\* to its end before the process exits: the process never exits on a signal
\* with a discovery request, a record fetch, a record update or a backoff sleep
\* of the pass still outstanding.
C16_SignalLetsThePassFinish ==
    (pc = "exited" /\ exitInfo.reason \in {"SIGTERM", "SIGINT"})
    => exitInfo.at \notin {"discover", "fetch", "update", "fn", "sleep"}

-----------------------------------------------------------------------------
(* Scheduling *)

\* a pass is in flight: the thread of control is inside performDNSCheck
PassInFlight == pc \in {"discover", "fetch", "update", "fn", "sleep"}

\* C17: the first pass starts at worker start, without a timer; every later
\* pass starts when the one pending tick timer fires, and that timer is armed
\* only after the previous pass has run to its end (retries and backoff sleeps
\* included); so at most one tick timer is pending, and none while a pass is in
\* flight.
C17_OnePassOrOneTimer ==
    /\ [](/\ timers \in {0, 1}
          /\ ~(PassInFlight /\ timers > 0)
          /\ timers = 1 => pc = "timer" /\ passResult # "none"
          /\ zones # <<>> => state.checkCount >= 1
          /\ pc = "loading" => state.checkCount = 0)
    /\ [][state'.checkCount # state.checkCount
            => /\ state'.checkCount = state.checkCount + 1
               /\ PassInFlight'
               /\ \/ pc = "loading" /\ state.checkCount = 0 /\ timers = 0
                  \/ pc = "timer" /\ timers = 1 /\ timers' = 0 /\ passResult # "none"]_vars

\* the second pass is in a backoff sleep and no tick timer is pending
C17_Witness ==
    /\ state.checkCount = 2
    /\ pc = "sleep"
    /\ Len(delays) = 2
    /\ timers = 0

-----------------------------------------------------------------------------
(* Startup *)

\* the names of the zones the provider lists for the account
ListedZoneNames == {AccountZones[i].name : i \in DOMAIN AccountZones}

\* some target names a zone the provider does not list
NamesUnknownZone == \E i \in DOMAIN descriptors : descriptors[i].zone \notin ListedZoneNames

StartupError == CHOOSE e \in exitInfo.error : TRUE

\* C18: when a target's zone is not among the listed zones, or the zone listing
\* fails, the process exits with status 1 from startup: the worker never starts,
\* no pass, discovery request or record call is made, and the listing is not
\* repeated even when its failure is of a retryable kind.
C18_ZoneResolutionFailureIsFatalAtStartup ==
    /\ NamesUnknownZone
       => /\ pc \in {"loading", "exited"}
          /\ exitInfo.reason \in {"", "STARTUP"}
    /\ zones # <<>> => \A z \in DOMAIN zones : zones[z].domain \in ListedZoneNames
    /\ (pc = "exited" /\ zones = <<>>) => exitInfo.reason = "STARTUP"
    /\ exitInfo.reason = "STARTUP"
       => /\ pc = "exited"
          /\ exitCode = {1}
          /\ exitInfo.at = "loading"
          /\ exitInfo.error # {}
          /\ StartupError.class \in {"ConfigError", "CloudflareAPIError"}
          /\ StartupError.class = "ConfigError" => NamesUnknownZone
          /\ zones = <<>>
          /\ state.checkCount = 0
          /\ attempt = 0
          /\ delays = <<>>
          /\ timers = 0
          /\ calls = <<>>
          /\ trace = <<>>

\* the second target's zone is not in the account: the process exited with
\* status 1 on the ConfigError, before any pass
C18_Witness ==
    /\ descriptors = <<D_www, D_lost>>
    /\ exitInfo.reason = "STARTUP"
    /\ exitInfo.error # {} /\ StartupError.class = "ConfigError"
    /\ exitCode = {1}
    /\ state.checkCount = 0

-----------------------------------------------------------------------------
(* Address discovery *)

\* the well-formed addresses the echo services of the model answer with
AddressesIPv4 == {IP_10_0_0_1, IP_10_0_0_2}
AddressesIPv6 == {IP6_a, IP6_B}

\* the text in which provider k of the family's list reports the address
EchoedText(k) ==
    LET raw == discovery.answers[k]
    IN IF ProvidersOf(discovery.family)[k].format = "json"
       THEN (IF raw.ip = {} THEN <<>> ELSE CHOOSE ip \in raw.ip : TRUE)
       ELSE raw.text

\* provider k answers 200 with a well-formed address (of either family)
AnswersAnAddress(k) ==
    /\ discovery.answers[k].kind = "response"
    /\ discovery.answers[k].status = 200
    /\ Stripped(EchoedText(k)) \in AddressesIPv4 \cup AddressesIPv6

\* provider k answers 200 with a well-formed address of the requested family
AnswersTheFamily(k) ==
    /\ AnswersAnAddress(k)
    /\ Stripped(EchoedText(k)) \in
          (IF discovery.family = "IPv6" THEN AddressesIPv6 ELSE AddressesIPv4)

ProviderUrls == [k \in DOMAIN ProvidersOf(discovery.family) |-> ProvidersOf(discovery.family)[k].url]

\* C19: discovery contacts its providers in list order and stops at the first
\* one that answers with an address: no provider after it is contacted, an
\* address that discovery returns is that provider's, and when every provider
\* failed all were contacted and discovery fails; calls repeated against
\* unchanged providers end the same way.
C19_FirstSuccessInListOrder ==
    LET answering == {k \in DOMAIN discovery.answers : AnswersAnAddress(k)}
        first == CHOOSE k \in answering : \A j \in answering : k <= j
    IN /\ \A n \in DOMAIN discovery.results :
            LET r == discovery.results[n]
            IN /\ r.contacted = SubSeq(ProviderUrls, 1, Len(r.contacted))
               /\ IF answering = {}
                  THEN ~r.result.ok /\ Len(r.contacted) = Len(ProviderUrls)
                  ELSE /\ Len(r.contacted) = first
                       /\ r.result.ok => r.result = Returned(Stripped(EchoedText(first)))
                       /\ AnswersTheFamily(first) => r.result.ok
               /\ r = discovery.results[1]
       /\ discovery.i > 0
          => /\ discovery.contacted = SubSeq(ProviderUrls, 1, discovery.i)
             /\ \A k \in 1..(discovery.i - 1) : ~AnswersAnAddress(k)

\* two IPv4 calls: the first provider timed out, the second and the third
\* answer with different addresses; both calls returned the second one's and
\* the third was not contacted
C19_Witness ==
    /\ discovery.family = "IPv4"
    /\ Len(discovery.results) = 2
    /\ discovery.answers = <<EchoAbort, EchoText(IP_10_0_0_2_padded), EchoText(IP_10_0_0_1)>>
    /\ discovery.results[2].result = Returned(IP_10_0_0_2)
    /\ Len(discovery.results[2].contacted) = 2

\* C20: within one discovery call, a provider whose answer is not a valid
\* address of the requested family counts as failed and the next provider is
\* tried: the call returns the address of the first provider that answers with
\* a valid address of the requested family.
C20_WrongFamilyFallsThrough ==
    LET fitting == {k \in DOMAIN discovery.answers : AnswersTheFamily(k)}
        first == CHOOSE k \in fitting : \A j \in fitting : k <= j
    IN \A n \in DOMAIN discovery.results :
          fitting # {} => discovery.results[n].result = Returned(Stripped(EchoedText(first)))

\* the message with which provider k of the list fails
ProviderMessage(k) ==
    ErrorOf(CallProvider(ProvidersOf(discovery.family)[k], discovery.answers[k])).message

\* the provider-level messages of providers k..n, in order, separated by ";"
RECURSIVE MessagesFrom(_)
MessagesFrom(k) ==
    IF k > Len(discovery.answers) THEN <<>>
    ELSE IF k = Len(discovery.answers) THEN ProviderMessage(k)
    ELSE ProviderMessage(k) \o <<";">> \o MessagesFrom(k + 1)

\* C21: when no provider of a discovery call answers with an address, the call
\* fails with an IPDetectionError after every provider of the list was contacted
\* exactly once, in order, and the error's message carries the provider-level
\* message of each provider, in provider order; a call does not fail that way
\* when some provider answers with an address.
C21_AllProvidersFailedCarriesEveryMessage ==
    \A n \in DOMAIN discovery.results :
       LET r == discovery.results[n]
           allFailed == \A k \in DOMAIN discovery.answers : ~AnswersAnAddress(k)
           head == <<"Failed to detect",
                     IF discovery.family = "IPv6" THEN "public IPv6" ELSE "public IPv4",
                     "Tried", ToString(Len(ProviderUrls)), "provider(s):">>
       IN /\ allFailed
             => /\ ~r.result.ok
                /\ r.contacted = ProviderUrls
                /\ ErrorOf(r.result).class = "IPDetectionError"
                /\ ErrorOf(r.result).message = head \o MessagesFrom(1)
          /\ (~r.result.ok /\ ErrorOf(r.result).message[1] = "Failed to detect")
             => allFailed

\* an IPv4 call failed after an HTTP 503, a timeout and a body that is no address
C21_Witness ==
    /\ discovery.family = "IPv4"
    /\ discovery.answers = <<EchoStatus(503), EchoAbort, EchoText(<<"o", "k">>)>>
    /\ Len(discovery.results) = 1
    /\ ~discovery.results[1].result.ok
    /\ Len(discovery.results[1].contacted) = 3

\* C22: whenever getPublicIPv6 returns a value it is a v6 address and whenever
\* getPublicIPv4 returns a value it is a v4 address; when no provider answers
\* with an address of the requested family the call fails, also when some
\* provider answers with an address of the other family.
C22_FamilyIsAHardFilter ==
    \A n \in DOMAIN discovery.results :
       LET r == discovery.results[n]
       IN /\ r.result.ok
             => ValueOf(r.result) \in
                  (IF discovery.family = "IPv6" THEN AddressesIPv6 ELSE AddressesIPv4)
          /\ (\A k \in DOMAIN discovery.answers : ~AnswersTheFamily(k)) => ~r.result.ok

\* an IPv6 call whose only provider answers with an IPv4 address failed
C22_Witness ==
    /\ discovery.family = "IPv6"
    /\ discovery.answers = <<EchoJson(IP_10_0_0_1)>>
    /\ Len(discovery.results) = 1
    /\ ~discovery.results[1].result.ok
    /\ ErrorOf(discovery.results[1].result).message[1]
          = "Received non-IPv6 address when expecting IPv6:"

-----------------------------------------------------------------------------
(* C23 *)

\* the credentials hold a bearer token: a non-empty apiToken
HasToken(config) == \E t \in config.apiToken : t # ""

\* the credentials hold a complete pair: a non-empty email and a non-empty apiKey
HasPair(config) ==
    /\ \E e \in config.email : e # ""
    /\ \E k \in config.apiKey : k # ""

\* C23: constructing the provider client throws a CloudflareAPIError, and no
\* request has been made by then, exactly when the credentials hold neither a
\* bearer token nor a complete (email, key) pair; otherwise it succeeds
C23_ConstructionNeedsCredentials ==
    \A c \in client.constructed :
        /\ c.ok <=> (HasToken(client.credentials) \/ HasPair(client.credentials))
        /\ ~c.ok => /\ ErrorOf(c).class = "CloudflareAPIError"
                    /\ client.sent = 0
                    /\ client.request = {}

\* C23 witness: a construction without a token and with an incomplete pair threw
C23_Witness ==
    /\ \E c \in client.constructed : ~c.ok
    /\ client.credentials.apiToken = {}
    /\ client.credentials.email = {"me@example.com"}
    /\ client.credentials.apiKey = {""}

-----------------------------------------------------------------------------
(* C24 *)

\* the update requests of the client: the one in flight and the last one settled
UpdateRequests == {x \in client.request \cup client.last : x.method = "PUT"}

\* the caller supplied the optional field / the body has the key
Supplied(v) == Cardinality(v) = 1
HasKey(v) == Cardinality(v) = 1

\* C24: the body of an update request has the caller's type and content, and has
\* each of name, ttl, proxied, with the caller's value, exactly when the caller
\* supplied it (a supplied false or 0 included); it has no omitted field
C24_BodyHasExactlyTheSuppliedFields ==
    \A x \in UpdateRequests : \A data \in x.data : \A body \in x.body :
        /\ body.type = data.type
        /\ body.content = data.content
        /\ HasKey(body.name) <=> Supplied(data.name)
        /\ HasKey(body.ttl) <=> Supplied(data.ttl)
        /\ HasKey(body.proxied) <=> Supplied(data.proxied)
        /\ body.name \subseteq data.name
        /\ body.ttl \subseteq data.ttl
        /\ body.proxied \subseteq data.proxied

\* C24 witness: an update sent with proxied=false and ttl=0 and without a name
C24_Witness ==
    \E x \in client.last : \E data \in x.data : \E body \in x.body :
        /\ x.method = "PUT"
        /\ data.proxied = {FALSE} /\ data.ttl = {0} /\ data.name = {}
        /\ body.proxied = {FALSE} /\ body.ttl = {0} /\ body.name = {}

-----------------------------------------------------------------------------
(* C25 *)

\* the requests of the client that have ended
SettledRequests == client.last

\* the HTTP status of a response is 2xx
Is2xx(raw) == raw.kind = "response" /\ raw.status \in 200..299

\* the body of a response is an envelope that reports success / failure
ReportsSuccess(raw) == raw.kind = "response" /\ raw.parse /\ raw.success
ReportsFailure(raw) == raw.kind = "response" /\ raw.parse /\ ~raw.success

\* C25: a request of the provider client either returns the result of the
\* envelope or throws a CloudflareAPIError, never both; it returns only when
\* the envelope reports success, the status is 2xx and a result is present; a
\* reported success without a result throws, and a reported failure throws an
\* error that carries the provider's error list, also when the status is 2xx
C25_ResultOrProviderError ==
    \A x \in SettledRequests :
        /\ Cardinality(x.outcome.value) + Cardinality(x.outcome.error) = 1
        /\ x.outcome.ok <=> x.outcome.value # {}
        /\ x.outcome.ok <=> (ReportsSuccess(x.raw) /\ Is2xx(x.raw) /\ x.raw.result # {})
        /\ x.outcome.ok => x.outcome.value = x.raw.result
        /\ ~x.outcome.ok => ErrorOf(x.outcome).class = "CloudflareAPIError"
        /\ ReportsFailure(x.raw) => /\ ~x.outcome.ok
                                    /\ ErrorOf(x.outcome).errors = x.raw.errors

\* C25 witness: an envelope with success=true, status 200 and no result made
\* the request throw
C25_Witness ==
    \E x \in SettledRequests :
        /\ ReportsSuccess(x.raw) /\ x.raw.status = 200 /\ x.raw.result = {}
        /\ ~x.outcome.ok

\* a 2xx envelope with success=false and two provider errors made the request
\* throw an error with both
C25_FailureWitness ==
    \E x \in SettledRequests :
        /\ ReportsFailure(x.raw) /\ x.raw.status = 200 /\ Len(x.raw.errors) = 2
        /\ ~x.outcome.ok /\ Len(ErrorOf(x.outcome).errors) = 2

-----------------------------------------------------------------------------
(* C26 *)

\* the request received an HTTP response / one with a non-2xx status
Responded(raw) == raw.kind = "response"
RespondedNon2xx(raw) == Responded(raw) /\ ~(raw.status \in 200..299)

\* C26: the error thrown for a request that received a response with a non-2xx
\* status carries that status, whether or not the body is a parseable envelope;
\* an error without a status is thrown only when no response was received
C26_ErrorCarriesTheHttpStatus ==
    \A x \in SettledRequests :
        ~x.outcome.ok =>
            /\ RespondedNon2xx(x.raw) => ErrorOf(x.outcome).statusCode = {x.raw.status}
            /\ ErrorOf(x.outcome).statusCode = {} => ~RespondedNon2xx(x.raw)

\* the error of a 502 response whose body is not JSON has no status
C26_StatusLost ==
    \E x \in SettledRequests :
        /\ x.raw = RawUnparsable(502)
        /\ ~x.outcome.ok
        /\ ErrorOf(x.outcome).statusCode = {}

-----------------------------------------------------------------------------
(* C27 *)

\* one hour and the time between two ticks, in minutes
OneHourInMinutes == 60
MinutesBetweenTicks == CheckPeriodMs \div 60000

\* a step in which the pending tick timer fires (the timer is gone and the
\* process has not exited)
TickFires == timers = 1 /\ timers' = 0 /\ pc' # "exited"

\* at the tick that starts pass state.checkCount + 1, some pass has succeeded
\* and more than one hour has gone by since the check time of the last one
StaleAtTick ==
    /\ LastSuccess > 0
    /\ (state.checkCount + 1 - LastSuccess) * MinutesBetweenTicks > OneHourInMinutes

\* C27: when a tick timer fires, the health check warns exactly when more than
\* one hour has gone by since the last successful pass; the tick changes no
\* field of the worker state other than the two that the start of the pass
\* sets, and the pass of that tick starts whether or not the warning was made
C27_StalenessCheckOnlyWarns ==
    [][TickFires
         => /\ staleWarning' <=> StaleAtTick
            /\ state'.isRunning = state.isRunning
            /\ state'.consecutiveErrors = state.consecutiveErrors
            /\ state'.lastSuccessfulCheck = state.lastSuccessfulCheck
            /\ state'.lastUpdateCount = state.lastUpdateCount
            /\ state'.checkCount = state.checkCount + 1
            /\ PassInFlight']_vars

\* C27 witness: the pass of a tick that warned is in flight, 80 minutes after
\* the only successful pass
C27_Witness ==
    /\ staleWarning
    /\ PassInFlight
    /\ LastSuccess = 1
    /\ state.checkCount = 5

\* the pass of a tick is in flight exactly one hour after the last successful
\* pass, and the tick did not warn
C27_ThresholdWitness ==
    /\ ~staleWarning
    /\ PassInFlight
    /\ LastSuccess = 1
    /\ state.checkCount = 4

-----------------------------------------------------------------------------
(* C28 *)

\* the calls of one validator that have returned or thrown
VerdictsOf(fn) == {v \in validation.verdict : v.fn = fn}

\* g is a decimal group: one or more decimal digits
DecimalGroup(g) == Len(g) >= 1 /\ \A j \in 1..Len(g) : g[j] \in Digits

\* the integer a decimal group denotes
RECURSIVE Denoted(_)
Denoted(g) ==
    IF Len(g) = 0 THEN 0
    ELSE 10 * Denoted(SubSeq(g, 1, Len(g) - 1))
         + (CHOOSE d \in 0..9 : ToString(d) = g[Len(g)])

\* s is exactly four dot-separated decimal groups, each denoting 0..255
FourGroupsInRange(s) ==
    LET gs == Split(s, ".")
    IN /\ Len(gs) = 4
       /\ \A i \in 1..4 : DecimalGroup(gs[i]) /\ Denoted(gs[i]) \in 0..255

\* ... and no group has more than three digits
FourShortGroupsInRange(s) ==
    /\ FourGroupsInRange(s)
    /\ \A i \in 1..4 : Len(Split(s, ".")[i]) <= 3

\* C28 as stated: isValidIPv4(s) returns, and returns true exactly when s is
\* four dot-separated decimal groups, each denoting an integer in 0..255
C28_FourDecimalGroupsInRange ==
    \A v \in VerdictsOf("isValidIPv4") :
        /\ v.outcome.ok
        /\ ValueOf(v.outcome) <=> FourGroupsInRange(validation.input)

\* C28 amended: isValidIPv4(s) returns, and returns true exactly when s is four
\* dot-separated groups of one to three decimal digits, each denoting an
\* integer in 0..255, with nothing before or after them
C28_FourGroupsOfAtMostThreeDigits ==
    \A v \in VerdictsOf("isValidIPv4") :
        /\ v.outcome.ok
        /\ ValueOf(v.outcome) <=> FourShortGroupsInRange(validation.input)

\* C28 witness: 0001.0.255.0 was rejected for the four digits of its first group
C28_Witness ==
    \E v \in VerdictsOf("isValidIPv4") :
        /\ validation.input = <<"0", "0", "0", "1", ".", "0", ".", "2", "5", "5", ".", "0">>
        /\ v.outcome.ok
        /\ ~ValueOf(v.outcome)

-----------------------------------------------------------------------------
(* C29 *)

\* the number of colons of s
Colons(s) == Cardinality({i \in 1..Len(s) : s[i] = ":"})

\* s is made of colon-separated groups of 0 to 4 hexadecimal digits each
HexGroups(s) ==
    \A i \in 1..Len(Split(s, ":")) :
        LET g == Split(s, ":")[i]
        IN Len(g) \in 0..4 /\ \A j \in 1..Len(g) : g[j] \in HexDigits

-----------------------------------------------------------------------------
(* C30 *)

\* the type target (z, r) was loaded with, and the addresses of its family
ConfiguredType(z, r) == zones[z].records[r].type

FamilyOfType(type) == IF type = "AAAA" THEN AddressesIPv6 ELSE AddressesIPv4

\* the family a failed discovery says it looked for
FamilyLookedFor(error) ==
    IF error.message = <<"Failed to detect", "public IPv6">> THEN AddressesIPv6
    ELSE AddressesIPv4

\* C30: for every target, the address discovered (or the discovery that
\* failed) is of the family of the target's configured type, and the type sent
\* in an update is the configured type, whatever the type of the record that
\* was fetched and whatever address was discovered
C30_FamilyFollowsConfiguredType ==
    /\ \A i \in DOMAIN trace :
          LET e == trace[i]
          IN /\ e.ip # {} => IpOf(e) \in FamilyOfType(ConfiguredType(e.z, e.r))
             /\ e.stage = "discover"
                  => \A err \in e.error :
                        FamilyLookedFor(err) = FamilyOfType(ConfiguredType(e.z, e.r))
    /\ pc \in {"fetch", "update"} => currentIP \in FamilyOfType(ConfiguredType(zi, ri))
    /\ \A i \in DOMAIN calls :
          calls[i].op = "updateDNSRecord"
            => \A d \in calls[i].data : d.type = ConfiguredType(calls[i].z, calls[i].r)

\* C30 witness: a target of type A whose lookup returned a record of type AAAA
\* was updated, and the update sent type A
C30_Witness ==
    \E i \in DOMAIN trace :
        /\ trace[i].result = "updated"
        /\ ConfiguredType(trace[i].z, trace[i].r) = "A"
        /\ \E rec \in trace[i].fetched : rec.type = "AAAA"
        /\ \E k \in CallsFor("updateDNSRecord", trace[i].z, trace[i].r) :
              \A d \in calls[k].data : d.type = "A"

-----------------------------------------------------------------------------
(* C31 *)

\* 2^k seconds, in milliseconds
RECURSIVE TwoToThe(_)
TwoToThe(k) == IF k = 0 THEN 1 ELSE 2 * TwoToThe(k - 1)

BackoffMs(k) == TwoToThe(k) * 1000

\* the attempts the retry wrapper is given
AttemptsAllowed == 3

-----------------------------------------------------------------------------
(* C32 *)

\* the target carries a record identifier
CarriesId(rc) == \E id \in rc.id : id # ""

\* the record the lookup is to select from the list the provider returned: the
\* first one with the target's identifier, or the first one of the list
RECURSIVE FirstWithId(_, _)
FirstWithId(list, ids) ==
    IF list = <<>> THEN {}
    ELSE IF Head(list).id \in ids THEN {Head(list)}
    ELSE FirstWithId(Tail(list), ids)

ToSelect(list, rc) ==
    IF CarriesId(rc) THEN FirstWithId(list, rc.id)
    ELSE IF list = <<>> THEN {} ELSE {Head(list)}

\* the list a response to getDNSRecords delivers, if it delivers one
Delivered(raw) ==
    IF raw.kind = "response" /\ raw.parse /\ raw.success /\ raw.status \in 200..299
    THEN raw.result ELSE {}

\* the entry a step appended to the log
Logged == IF Len(trace') = Len(trace) + 1 THEN {trace'[Len(trace')]} ELSE {}

\* C32: the lookup of a target that carries a record identifier fetches the
\* zone's records without filters and selects the record with that identifier
\* (none if there is none, whatever names and types are there); the lookup of
\* any other target fetches with the target's name and type as filters and
\* selects the first record returned (none if the list is empty)
C32_LookupByIdOrByNameAndType ==
    /\ [](\A i \in DOMAIN calls :
            calls[i].op = "getDNSRecords"
              => LET rc == zones[calls[i].z].records[calls[i].r]
                 IN /\ calls[i].zoneId = zones[calls[i].z].zoneId
                    /\ calls[i].filters = IF CarriesId(rc) THEN {}
                                          ELSE {[name |-> rc.name, type |-> rc.type]})
    /\ [][pc = "fetch"
            => \E raw \in RawGetResponses(RecordConfig) :
                  IF Delivered(raw) = {}
                  THEN \E e \in Logged : e.lookup = "error" /\ e.fetched = {}
                  ELSE \E list \in Delivered(raw) :
                          LET sel == ToSelect(list, RecordConfig)
                          IN IF sel = {}
                             THEN \E e \in Logged : e.lookup = "missing" /\ e.fetched = {}
                             ELSE \/ \E e \in Logged : e.lookup = "found" /\ e.fetched = sel
                                  \/ pc' = "update" /\ existing' = sel]_vars

\* C32 witness: the record with the target's identifier was selected although
\* it was not the first of the zone's records
C32_Witness ==
    /\ pc = "update"
    /\ CarriesId(RecordConfig)
    /\ \E rec \in existing : {rec.id} = RecordConfig.id /\ rec.content = IP_10_0_0_2
    /\ \E i \in DOMAIN calls : calls[i].op = "getDNSRecords" /\ calls[i].filters = {}

-----------------------------------------------------------------------------
(* C33 *)

\* the target whose steps are running
InFlightTarget == IF PassInFlight THEN {<<zi, ri>>} ELSE {}

\* C33: for every target the steps run in the order discovery, record fetch,
\* compare, update.  A target whose discovery failed is logged as failed and has
\* no getDNSRecords and no updateDNSRecord call; a target whose record fetch
\* failed is logged as failed and has no updateDNSRecord call; a lookup is
\* issued only after an address was discovered and an update only after the
\* lookup; after either failure the pass goes on with the next target
C33_StepsInOrderAndFailuresSkipTheRest ==
    /\ \A i \in DOMAIN trace :
          LET e == trace[i]
          IN /\ e.stage = "discover"
                  => /\ e.result = "failed"
                     /\ e.ip = {}
                     /\ CallsFor("getDNSRecords", e.z, e.r) = {}
                     /\ CallsFor("updateDNSRecord", e.z, e.r) = {}
             /\ e.lookup = "error"
                  => /\ e.result = "failed"
                     /\ e.stage = "fetch"
                     /\ Cardinality(CallsFor("getDNSRecords", e.z, e.r)) = 1
                     /\ CallsFor("updateDNSRecord", e.z, e.r) = {}
             /\ e.result = "failed" /\ i < NumRecords(zones)
                  => \/ Len(trace) > i /\ TargetIndex(trace[i + 1].z, trace[i + 1].r) = i + 1
                     \/ \E t \in InFlightTarget : Len(trace) = i /\ TargetIndex(t[1], t[2]) = i + 1
                     \/ pc = "exited"
    /\ \A k \in DOMAIN calls :
          /\ calls[k].op = "updateDNSRecord"
               => \E j \in 1..(k - 1) :
                     /\ calls[j].op = "getDNSRecords"
                     /\ calls[j].z = calls[k].z /\ calls[j].r = calls[k].r
          /\ calls[k].op = "getDNSRecords"
               => \/ \E i \in DOMAIN trace :
                        /\ trace[i].z = calls[k].z /\ trace[i].r = calls[k].r
                        /\ trace[i].ip # {}
                  \/ /\ <<calls[k].z, calls[k].r>> \in InFlightTarget
                     /\ pc \in {"fetch", "update"}
                     /\ currentIP # <<>>

\* C33 witness: in a pass over two targets the discovery of the first failed
\* and no call was made for it; the record fetch of the second failed and no
\* update was issued; the pass ran to its end
C33_Witness ==
    /\ PassCompleted
    /\ Len(trace) = 2
    /\ trace[1].stage = "discover" /\ trace[1].result = "failed"
    /\ trace[2].lookup = "error" /\ trace[2].result = "failed"
    /\ Len(calls) = 1
    /\ calls[1].op = "getDNSRecords" /\ calls[1].z = trace[2].z /\ calls[1].r = trace[2].r

-----------------------------------------------------------------------------
(* C34 *)

\* target (z, r) is done in this attempt: its entry is in the log
Done(z, r) == \E i \in DOMAIN trace : trace[i].z = z /\ trace[i].r = r

\* the discovery requests awaiting their answer: the one of the target in
\* flight for as long as it has no address
OutstandingDiscoveries ==
    {t \in InFlightTarget : reconciler = "shipped" /\ currentIP = <<>>}

\* the provider-client calls awaiting their answer: those of a target that is
\* not done, except the lookup that has delivered the record to update
OutstandingCalls ==
    {k \in DOMAIN calls :
        /\ pc # "exited"
        /\ ~Done(calls[k].z, calls[k].r)
        /\ ~(calls[k].op = "getDNSRecords" /\ existing # {})}

\* C34: at most one network request is outstanding at any moment, be it the
\* discovery request of a target or a provider-client call, and while a pass is
\* in flight exactly one is; in particular at most one update call is in
\* flight, and every call that is outstanding belongs to the target in flight
C34_OneRequestAtATime ==
    /\ Cardinality(OutstandingDiscoveries) + Cardinality(OutstandingCalls) <= 1
    /\ PassInFlight
         => Cardinality(OutstandingDiscoveries) + Cardinality(OutstandingCalls) = 1
    /\ Cardinality({k \in OutstandingCalls : calls[k].op = "updateDNSRecord"}) <= 1
    /\ \A k \in OutstandingCalls : <<calls[k].z, calls[k].r>> \in InFlightTarget

\* C34 witness: the update of the second target is outstanding, the update of
\* the first has been answered
C34_Witness ==
    /\ Len(trace) = 1
    /\ trace[1].result = "updated"
    /\ \E k \in OutstandingCalls : calls[k].op = "updateDNSRecord" /\ calls[k].z = 2
    /\ Cardinality({k \in DOMAIN calls : calls[k].op = "updateDNSRecord"}) = 2

\* within one discovery the echo services are asked one after another: while
\* tryProviders runs, all providers contacted but the last have answered
C34_ProvidersOneAtATime ==
    discovery.i > 0
      => /\ Len(discovery.contacted) - Len(discovery.errors) = 1
         /\ Len(discovery.contacted) = discovery.i

-----------------------------------------------------------------------------
(* C35 *)

\* the pass failed with a provider error of status 401 or 403
PassFailedOnAuth ==
    /\ passResult = "failed"
    /\ passError # {}
    /\ PassError.class = "CloudflareAPIError"
    /\ AuthStatus(PassError)

\* C35: a pass failure with status 401 or 403 takes the authentication shutdown
\* (the one that tells to check the credentials), also when it is the tenth
\* consecutive failure; the failure-ceiling shutdown (the one that tells to
\* check configuration and connectivity) is taken for other failures only
C35_AuthFailureTakesTheAuthPath ==
    /\ PassFailedOnAuth => exitInfo.reason = "AUTH_ERROR"
    /\ exitInfo.reason = "CRITICAL" => ~PassFailedOnAuth

\* the tenth consecutive failure carried status 401 and the process took the
\* failure-ceiling shutdown
C35_AuthFailureAtTheCeiling ==
    /\ PassFailedOnAuth
    /\ PassError.statusCode = {401}
    /\ state.consecutiveErrors = 10
    /\ exitInfo.reason = "CRITICAL"

-----------------------------------------------------------------------------
(* C36 *)

\* the targets of the log that ended with the given result
EndedAs(result) == {i \in DOMAIN trace : trace[i].result = result}

\* C36: after every pass the summary has total = number of updates + skipped +
\* number of errors, total is the number of configured records of all zones,
\* and every target counts in exactly one of the three: the updated ones in
\* updates, the skipped ones in skipped, the failed ones in errors
C36_SummaryAddsUp ==
    PassCompleted
    => /\ summary.total = Len(summary.updates) + summary.skipped + Len(summary.errors)
       /\ summary.total = NumRecords(zones)
       /\ Len(summary.updates) = Cardinality(EndedAs("updated"))
       /\ summary.skipped = Cardinality(EndedAs("skipped"))
       /\ Len(summary.errors) = Cardinality(EndedAs("failed"))

\* a pass over one target that was updated ended with total 1 and nothing in
\* updates, skipped or errors
C36_UpdatedTargetIsNotCounted ==
    /\ PassCompleted
    /\ Len(trace) = 1 /\ trace[1].result = "updated"
    /\ summary.total = 1
    /\ summary.updates = <<>> /\ summary.skipped = 0 /\ summary.errors = <<>>

-----------------------------------------------------------------------------
(* C37 *)

\* some target of the log failed with a provider error of the given status
FailedWithStatus(status) ==
    \E i \in DOMAIN trace : \E e \in trace[i].error :
        e.class = "CloudflareAPIError" /\ e.statusCode = {status}

-----------------------------------------------------------------------------
(* C38 *)

\* no pass has succeeded since the worker started
NeverSucceeded == state.lastSuccessfulCheck = {}

\* C38: as long as no pass has succeeded since start, no tick has made the
\* staleness check warn, however many ticks there were; a warning has been made
\* only if some pass succeeded before
C38_NoWarningBeforeTheFirstSuccess ==
    /\ NeverSucceeded => ~staleWarning
    /\ staleWarning => \E last \in state.lastSuccessfulCheck : last >= 1

\* C38 witness: the ninth pass is in flight, more than two hours after the
\* start; none has succeeded and the tick that started it did not warn
C38_Witness ==
    /\ NeverSucceeded
    /\ state.checkCount = 9
    /\ state.consecutiveErrors = 8
    /\ PassInFlight
    /\ ~staleWarning

====
